---- MODULE Spec2Model ----
(***************************************************************************)
(* A model of the lagbaja flashcard agent: the JSON-RPC message endpoint   *)
(* (internal/handler/a2a_handler.go), the flashcard service and its parser *)
(* (internal/service/flashcard_service.go), the PDF service                *)
(* (internal/service/pdf_service.go) and the upload and health handlers    *)
(* (main.go).                                                              *)
(*                                                                         *)
(* Go strings are TLA+ strings; the string functions of the Go standard    *)
(* library that the code calls are defined character by character.         *)
(*                                                                         *)
(* A request is handled by a goroutine that stops where its handler       *)
(* waits: for the body of the request, for the download and for the        *)
(* generative model.  Spec is the server with one request at a time, every *)
(* request and every answer of a collaborator; FunctionSpec applies the    *)
(* functions of the flashcard service (parser, FormatAsText,               *)
(* ExtractPDFURL, generateTitle, generateFlashcards) to drawn arguments;   *)
(* ConcurrentSpec is the server handling several requests at once.         *)
(***************************************************************************)
EXTENDS Integers, Sequences, FiniteSets, TLC

(***************************************************************************)
(* Go standard library: package strings, fmt                               *)
(***************************************************************************)
Min(a, b) == IF a < b THEN a ELSE b

CharAt(s, i) == SubSeq(s, i, i)

\* the vertical tab '\v' (U+000B), which has no escape in a TLA+ string
VerticalTab == ""

\* unicode.IsSpace on the characters a string of the model can hold, which are the
\* 7-bit characters: '\t', '\n', '\v', '\f', '\r', ' '.  (U+0085, U+00A0 and the category
\* Z are white space for Go as well; no string of the model holds them.)
IsSpace(c) == c \in {" ", "\n", "\t", "\r", "\f", VerticalTab}

HasPrefix(s, p) == Len(s) >= Len(p) /\ SubSeq(s, 1, Len(p)) = p

TrimPrefix(s, p) == IF HasPrefix(s, p) THEN SubSeq(s, Len(p) + 1, Len(s)) ELSE s

\* strings.Index + 1: the first position where sub occurs in s, 0 when none
IndexOf(s, sub) ==
    LET hits == {i \in 1..(Len(s) - Len(sub) + 1) : SubSeq(s, i, i + Len(sub) - 1) = sub}
    IN  IF hits = {} THEN 0 ELSE CHOOSE i \in hits : \A j \in hits : i <= j

Contains(s, sub) == IndexOf(s, sub) # 0

UpperCase == "ABCDEFGHIJKLMNOPQRSTUVWXYZ"
LowerCase == "abcdefghijklmnopqrstuvwxyz"

ToLowerChar(c) ==
    LET i == IndexOf(UpperCase, c) IN IF i = 0 THEN c ELSE CharAt(LowerCase, i)

RECURSIVE ToLower(_)
ToLower(s) == IF s = "" THEN "" ELSE ToLowerChar(CharAt(s, 1)) \o ToLower(SubSeq(s, 2, Len(s)))

\* strings.TrimRight(s, cutset), cutset given as a set of characters
TrimRight(s, cutset) ==
    LET keep == {i \in 1..Len(s) : CharAt(s, i) \notin cutset}
    IN  IF keep = {} THEN ""
        ELSE SubSeq(s, 1, CHOOSE i \in keep : \A j \in keep : j <= i)

TrimSpace(s) ==
    LET keep == {i \in 1..Len(s) : ~IsSpace(CharAt(s, i))}
    IN  IF keep = {} THEN ""
        ELSE SubSeq(s, CHOOSE i \in keep : \A j \in keep : i <= j,
                       CHOOSE i \in keep : \A j \in keep : j <= i)

\* strings.Split(s, sep) for a non-empty sep: left to right, non-overlapping
RECURSIVE Split(_, _)
Split(s, sep) ==
    LET i == IndexOf(s, sep)
    IN  IF i = 0 THEN <<s>>
        ELSE <<SubSeq(s, 1, i - 1)>> \o Split(SubSeq(s, i + Len(sep), Len(s)), sep)

\* strings.Fields: the maximal runs of non-space characters, in order
RECURSIVE Fields(_)
Fields(s) ==
    LET nonsp == {i \in 1..Len(s) : ~IsSpace(CharAt(s, i))}
    IN  IF nonsp = {} THEN << >>
        ELSE LET b  == CHOOSE i \in nonsp : \A j \in nonsp : i <= j
                 sp == {i \in b..Len(s) : IsSpace(CharAt(s, i))}
                 e  == IF sp = {} THEN Len(s) + 1
                       ELSE CHOOSE i \in sp : \A j \in sp : i <= j
             IN  <<SubSeq(s, b, e - 1)>> \o Fields(SubSeq(s, e, Len(s)))

Digits == "0123456789"

\* fmt.Sprintf("%d", n) for n >= 0
RECURSIVE Itoa(_)
Itoa(n) == IF n < 10 THEN CharAt(Digits, n + 1)
           ELSE Itoa(n \div 10) \o CharAt(Digits, (n % 10) + 1)

(***************************************************************************)
(* internal/models: JSON-RPC error codes, task states, roles, part kinds   *)
(***************************************************************************)
ParseError == -32700
InvalidRequest == -32600
MethodNotFound == -32601
InvalidParams == -32602
InternalError == -32603

StateCompleted == "completed"
RoleUser == "user"
RoleAgent == "agent"
KindText == "text"
KindData == "data"
KindMessage == "message"

StatusOK == 200
StatusBadRequest == 400
StatusMethodNotAllowed == 405
StatusInternalServerError == 500

(***************************************************************************)
(* pkg/errors: AppError, as its callers construct and read it              *)
(***************************************************************************)
NoError == [Code |-> 0, Message |-> "", Err |-> ""]

NewAppError(code, message, err) == [Code |-> code, Message |-> message, Err |-> err]

\* AppError.Error(): the diagnostic string sent as the data of an RPC error
ErrorString(e) == IF e.Err = "" THEN e.Message ELSE e.Message \o ": " \o e.Err

(***************************************************************************)
(* internal/service/pdf_service.go                                         *)
(*                                                                         *)
(* The network and the PDF library are collaborators: their answer to the  *)
(* one call a request makes is an input of the request,                    *)
(*   fetch   = [t : "neterr" | "readerr" | "ok", status : Nat, data : bytes]*)
(*   extract = [t : "reader" | "doc", pages : sequence of                  *)
(*              [t : "null" | "err" | "ok", text : string]]                 *)
(* where "reader" is a failure of pdf.NewReader and pages are the answers   *)
(* of the pages 1..NumPage(): a null page, a failure of GetPlainText, or    *)
(* the text of the page.                                                    *)
(***************************************************************************)
NoData == ""

\* NewPDFService: the HTTP client of the service has a timeout of 30 s
HTTPClientTimeout == 30

NewPDFService == [httpClient |-> [Timeout |-> HTTPClientTimeout]]

DownloadPDF(url, fetch) ==
    IF fetch.t = "neterr"
    THEN [err |-> NewAppError(InternalError, "Failed to download PDF", "net error"), data |-> NoData]
    ELSE IF fetch.status # StatusOK
    THEN [err |-> NewAppError(InternalError,
                              "Failed to download PDF: status " \o Itoa(fetch.status), ""),
          data |-> NoData]
    ELSE IF fetch.t = "readerr"
    THEN [err |-> NewAppError(InternalError, "Failed to read PDF data", "read error"), data |-> NoData]
    ELSE [err |-> NoError, data |-> fetch.data]

\* the page loop of ExtractText from page pageNum on, text being what textBuilder holds
RECURSIVE ExtractPages(_, _, _)
ExtractPages(pages, pageNum, text) ==
    IF pageNum > Len(pages) THEN [err |-> NoError, text |-> text]
    ELSE IF pages[pageNum].t = "null" THEN ExtractPages(pages, pageNum + 1, text)
    ELSE IF pages[pageNum].t = "err"
    THEN [err  |-> NewAppError(InternalError,
                               "Failed to extract text from page " \o Itoa(pageNum), "pdf error"),
          text |-> ""]
    ELSE ExtractPages(pages, pageNum + 1, text \o pages[pageNum].text)

ExtractText(pdfData, extract) ==
    IF extract.t = "reader"
    THEN [err |-> NewAppError(InternalError, "Failed to create PDF reader", "pdf error"), text |-> ""]
    ELSE ExtractPages(extract.pages, 1, "")

\* the result of a call of ExtractText as the log of calls records it
ExtractResult(x) == IF x.err = NoError THEN "ok" ELSE "err"

PDFMagic == "%PDF"

ValidatePDF(data) ==
    IF Len(data) < 4
    THEN NewAppError(InvalidParams, "Invalid PDF: file too small", "")
    ELSE IF ~HasPrefix(data, PDFMagic)
    THEN NewAppError(InvalidParams, "Invalid PDF: incorrect file format", "")
    ELSE NoError

(***************************************************************************)
(* internal/service/flashcard_service.go                                   *)
(*                                                                         *)
(* The generative model is a collaborator; its answer is an input,         *)
(*   gen = [t : "ok" | "err" | "empty", text : string]                     *)
(***************************************************************************)
NoSet == [Title |-> "", Flashcards |-> << >>, Source |-> "", CreatedAt |-> "", TotalCards |-> 0]

\* a *FlashcardService is nil or points to a service with the PDF service and the handle
\* of the generative model
NilService == [nil |-> TRUE, pdfService |-> "", model |-> ""]

\* client: the answer of genai.NewClient, "ok" or "err"
NewFlashcardService(pdfService, client) ==
    IF client = "err" THEN NilService
    ELSE [nil |-> FALSE, pdfService |-> pdfService, model |-> "gemini-2.0-flash-lite"]

\* the run-time panic of a method that reads a field of a nil service; it unwinds the
\* callers up to the server
Panic ==
    NewAppError(0, "runtime error: invalid memory address or nil pointer dereference", "panic")

PromptHead ==
    "Create a set of 5-10 high-quality flashcards from the following text. \n"
    \o "Each flashcard should:\n"
    \o "- Have a clear, specific question\n"
    \o "- Include a concise but comprehensive answer\n"
    \o "- Be categorized with an appropriate topic\n"
    \o "- Cover key concepts, definitions, and applications\n\n"
    \o "Text to process:\n"

PromptTail ==
    "\n\nFormat each flashcard as:\nQ: [Question]\nA: [Answer]\nT: [Topic]\n\n"

Prompt(text) == PromptHead \o text \o PromptTail

\* the loop over the lines of one block: the fields after lines[1..n]
\* the line loop that assigns a field only when the remainder of the line is not empty
RECURSIVE ScanLines_KeepNonEmpty(_, _)
ScanLines_KeepNonEmpty(lines, n) ==
    IF n = 0 THEN [question |-> "", answer |-> "", topic |-> ""]
    ELSE LET prev == ScanLines_KeepNonEmpty(lines, n - 1)
             line == TrimSpace(lines[n])
             rest == TrimSpace(SubSeq(line, 3, Len(line)))
         IN  IF rest = "" THEN prev
             ELSE IF HasPrefix(line, "Q:") THEN [prev EXCEPT !.question = rest]
             ELSE IF HasPrefix(line, "A:") THEN [prev EXCEPT !.answer = rest]
             ELSE IF HasPrefix(line, "T:") THEN [prev EXCEPT !.topic = rest]
             ELSE prev

RECURSIVE ScanLines(_, _)
ScanLines(lines, n) ==
    IF n = 0 THEN [question |-> "", answer |-> "", topic |-> ""]
    ELSE LET prev == ScanLines(lines, n - 1)
             line == TrimSpace(lines[n])
         IN  IF HasPrefix(line, "Q:")
             THEN [prev EXCEPT !.question = TrimSpace(TrimPrefix(line, "Q:"))]
             ELSE IF HasPrefix(line, "A:")
             THEN [prev EXCEPT !.answer = TrimSpace(TrimPrefix(line, "A:"))]
             ELSE IF HasPrefix(line, "T:")
             THEN [prev EXCEPT !.topic = TrimSpace(TrimPrefix(line, "T:"))]
             ELSE prev

\* the block body without the default of the topic
ParseCard_NoTopicDefault(card) ==
    IF ~Contains(card, "Q:") \/ ~Contains(card, "A:") THEN << >>
    ELSE LET lines == Split(card, "\n")
             f     == ScanLines(lines, Len(lines))
         IN  IF f.question # "" /\ f.answer # ""
             THEN <<[Question |-> f.question, Answer |-> f.answer, Topic |-> f.topic]>>
             ELSE << >>

\* the flashcards one block appends: none or one
ParseCard(card) ==
    IF ~Contains(card, "Q:") \/ ~Contains(card, "A:") THEN << >>
    ELSE LET lines == Split(card, "\n")
             f     == ScanLines(lines, Len(lines))
         IN  IF f.question # "" /\ f.answer # ""
             THEN <<[Question |-> f.question, Answer |-> f.answer,
                     Topic |-> IF f.topic = "" THEN "Concept" ELSE f.topic]>>
             ELSE << >>

\* the loop over the blocks: the flashcards after cards[1..n]
RECURSIVE ParseCards(_, _)
ParseCards(cards, n) ==
    IF n = 0 THEN << >> ELSE ParseCards(cards, n - 1) \o ParseCard(cards[n])

\* the parser with append replaced by prepend: the flashcards in reverse block order
RECURSIVE ParseCards_Prepend(_, _)
ParseCards_Prepend(cards, n) ==
    IF n = 0 THEN << >> ELSE ParseCard(cards[n]) \o ParseCards_Prepend(cards, n - 1)

ParseResponse_Prepend(responseText) ==
    LET cards == Split(responseText, "\n\n") IN ParseCards_Prepend(cards, Len(cards))

ParseResponse(responseText) ==
    LET cards == Split(responseText, "\n\n") IN ParseCards(cards, Len(cards))

\* generateTitle that looks for "http" anywhere in the source
generateTitle_Contains(source) ==
    IF Contains(source, "http") THEN "Flashcards from PDF" ELSE "Study Flashcards"

generateTitle(source) ==
    IF HasPrefix(source, "http") THEN "Flashcards from PDF" ELSE "Study Flashcards"

\* generateFlashcards without the check that at least one flashcard was parsed
generateFlashcards_AllowEmpty(s, text, source, gen, now) ==
    IF Len(TrimSpace(text)) = 0
    THEN [err |-> NewAppError(InvalidParams, "no content to generate flashcards from", ""),
          set |-> NoSet, calls |-> << >>]
    ELSE IF s.nil THEN [err |-> Panic, set |-> NoSet, calls |-> << >>]
    ELSE LET call == <<[op |-> "generate", arg |-> Prompt(text), res |-> gen.t, out |-> gen.text]>>
         IN  IF gen.t = "err"
             THEN [err |-> NewAppError(InternalError, "failed to generate flashcards", "model error"),
                   set |-> NoSet, calls |-> call]
             ELSE IF gen.t = "empty"
             THEN [err |-> NewAppError(InternalError, "no response generated from AI model", ""),
                   set |-> NoSet, calls |-> call]
             ELSE LET flashcards == ParseResponse(gen.text)
                  IN  [err |-> NoError,
                       set |-> [Title |-> generateTitle(source),
                                Source |-> source,
                                Flashcards |-> flashcards,
                                TotalCards |-> Len(flashcards),
                                CreatedAt |-> now],
                       calls |-> call]

\* result: the error or the set, and the collaborator calls made
generateFlashcards(s, text, source, gen, now) ==
    IF Len(TrimSpace(text)) = 0
    THEN [err |-> NewAppError(InvalidParams, "no content to generate flashcards from", ""),
          set |-> NoSet, calls |-> << >>]
    ELSE IF s.nil THEN [err |-> Panic, set |-> NoSet, calls |-> << >>]
    ELSE LET call == <<[op |-> "generate", arg |-> Prompt(text), res |-> gen.t, out |-> gen.text]>>
         IN  IF gen.t = "err"
             THEN [err |-> NewAppError(InternalError, "failed to generate flashcards", "model error"),
                   set |-> NoSet, calls |-> call]
             ELSE IF gen.t = "empty"
             THEN [err |-> NewAppError(InternalError, "no response generated from AI model", ""),
                   set |-> NoSet, calls |-> call]
             ELSE LET flashcards == ParseResponse(gen.text)
                  IN  IF Len(flashcards) = 0
                      THEN [err |-> NewAppError(InternalError,
                                       "could not generate meaningful flashcards from the content", ""),
                            set |-> NoSet, calls |-> call]
                      ELSE [err |-> NoError,
                            set |-> [Title |-> generateTitle(source),
                                     Source |-> source,
                                     Flashcards |-> flashcards,
                                     TotalCards |-> Len(flashcards),
                                     CreatedAt |-> now],
                            calls |-> call]

\* the collaborator answers of one request: o = [fetch, extract, gen, now, later, uuids];
\* a call made is logged as [op, arg, res, out]
Call(op, arg, res, out) == [op |-> op, arg |-> arg, res |-> res, out |-> out]

GenerateFromPDFData(s, pdfData, o) ==
    IF s.nil THEN [err |-> Panic, set |-> NoSet, calls |-> << >>] ELSE
    LET v  == ValidatePDF(pdfData)
        c1 == <<Call("validate", pdfData, IF v = NoError THEN "ok" ELSE "invalid", "")>>
    IN  IF v # NoError THEN [err |-> v, set |-> NoSet, calls |-> c1]
        ELSE LET x  == ExtractText(pdfData, o.extract)
                 c2 == c1 \o <<Call("extract", pdfData, ExtractResult(x), x.text)>>
             IN  IF x.err # NoError THEN [err |-> x.err, set |-> NoSet, calls |-> c2]
                 ELSE LET g == generateFlashcards(s, x.text, "uploaded_pdf", o.gen, o.now)
                      IN  [g EXCEPT !.calls = c2 \o g.calls]

GenerateFromURL(s, url, o) ==
    IF s.nil THEN [err |-> Panic, set |-> NoSet, calls |-> << >>] ELSE
    LET dl == DownloadPDF(url, o.fetch)
        c0 == <<Call("fetch", url, IF dl.err = NoError THEN "ok" ELSE "failed", dl.data)>>
    IN  IF dl.err # NoError THEN [err |-> dl.err, set |-> NoSet, calls |-> c0]
        ELSE LET v  == ValidatePDF(dl.data)
                 c1 == c0 \o <<Call("validate", dl.data,
                                    IF v = NoError THEN "ok" ELSE "invalid", "")>>
             IN  IF v # NoError THEN [err |-> v, set |-> NoSet, calls |-> c1]
                 ELSE LET x  == ExtractText(dl.data, o.extract)
                          c2 == c1 \o <<Call("extract", dl.data, ExtractResult(x), x.text)>>
                      IN  IF x.err # NoError THEN [err |-> x.err, set |-> NoSet, calls |-> c2]
                          ELSE LET g == generateFlashcards(s, x.text, url, o.gen, o.now)
                               IN  [g EXCEPT !.calls = c2 \o g.calls]

GenerateFromText(s, text, o) == generateFlashcards(s, text, "user_input", o.gen, o.now)

RECURSIVE FormatCards(_, _)
FormatCards(cards, n) ==
    IF n = 0 THEN ""
    ELSE FormatCards(cards, n - 1)
         \o "**Card " \o Itoa(n) \o "**"
         \o (IF cards[n].Topic # "" THEN " (" \o cards[n].Topic \o ")" ELSE "")
         \o "\n"
         \o "Q: " \o cards[n].Question \o "\n"
         \o "A: " \o cards[n].Answer \o "\n\n"

\* FormatAsText that ends a card with a single newline
RECURSIVE FormatCards_NoBlankLine(_, _)
FormatCards_NoBlankLine(cards, n) ==
    IF n = 0 THEN ""
    ELSE FormatCards_NoBlankLine(cards, n - 1)
         \o "**Card " \o Itoa(n) \o "**"
         \o (IF cards[n].Topic # "" THEN " (" \o cards[n].Topic \o ")" ELSE "")
         \o "\n"
         \o "Q: " \o cards[n].Question \o "\n"
         \o "A: " \o cards[n].Answer \o "\n"

FormatAsText_NoBlankLine(set) ==
    "# " \o set.Title \o "\n\n"
    \o "Generated " \o Itoa(set.TotalCards) \o " flashcards from: " \o set.Source \o "\n\n"
    \o FormatCards_NoBlankLine(set.Flashcards, Len(set.Flashcards))

FormatAsText(set) ==
    "# " \o set.Title \o "\n\n"
    \o "Generated " \o Itoa(set.TotalCards) \o " flashcards from: " \o set.Source \o "\n\n"
    \o FormatCards(set.Flashcards, Len(set.Flashcards))

\* the first token accepted by the loop over words[i..]
RECURSIVE FirstPDFURL(_, _)
FirstPDFURL(words, i) ==
    IF i > Len(words) THEN ""
    ELSE LET cleaned == TrimRight(words[i], {".", ",", ";"})
         IN  IF HasPrefix(cleaned, "http") /\ Contains(ToLower(cleaned), ".pdf")
             THEN cleaned
             ELSE FirstPDFURL(words, i + 1)

\* ExtractPDFURL that looks for ".pdf" without lowering the case of the token
RECURSIVE FirstPDFURL_CaseSensitive(_, _)
FirstPDFURL_CaseSensitive(words, i) ==
    IF i > Len(words) THEN ""
    ELSE LET cleaned == TrimRight(words[i], {".", ",", ";"})
         IN  IF HasPrefix(cleaned, "http") /\ Contains(cleaned, ".pdf")
             THEN cleaned
             ELSE FirstPDFURL_CaseSensitive(words, i + 1)

ExtractPDFURL_CaseSensitive(text) == FirstPDFURL_CaseSensitive(Fields(text), 1)

ExtractPDFURL(text) == FirstPDFURL(Fields(text), 1)

(***************************************************************************)
(* JSON values as encoding/json decodes them.  A scalar is                 *)
(*   [t : "absent" | "string" | "number" | "bytes", s : string]            *)
(* ("bytes" is the Go type []byte, which no JSON text decodes to), the     *)
(* payload of a part is a scalar or an object with the three keys that     *)
(* extractPDFData reads,                                                   *)
(*   [t : "absent" | "string" | "number" | "object" | "bytes", s,          *)
(*    contentType, data, pdf : scalar]                                     *)
(***************************************************************************)
Absent == [t |-> "absent", s |-> ""]
Str(s) == [t |-> "string", s |-> s]
Num == [t |-> "number", s |-> ""]
\* a JSON object kept as a whole: s is its text
Object(s) == [t |-> "object", s |-> s]

ScalarPayload(sc) == [t |-> sc.t, s |-> sc.s, contentType |-> Absent, data |-> Absent, pdf |-> Absent]
ObjectPayload(ct, d, p) == [t |-> "object", s |-> "", contentType |-> ct, data |-> d, pdf |-> p]

\* a string field of a Go struct accepts a JSON string; an absent key keeps ""
DecodesAsString(sc) == sc.t \in {"absent", "string"}
StringField(sc) == IF sc.t = "string" THEN sc.s ELSE ""

(***************************************************************************)
(* internal/models: Message and MessagePart decoded from a JSON object     *)
(***************************************************************************)
\* Metadata is an interface{}: the JSON value of the key "metadata", Absent for nil
NoMessage == [Kind |-> "", Role |-> "", Parts |-> << >>, MessageID |-> "", TaskID |-> "",
              Metadata |-> Absent]

PartDecodes(p) == DecodesAsString(p.kind) /\ DecodesAsString(p.text)

DecodePart(p) == [Kind |-> StringField(p.kind), Text |-> StringField(p.text), Data |-> p.data]

\* json.Unmarshal(messageJSON, &msg)
MessageDecodes(m) ==
    /\ DecodesAsString(m.kind) /\ DecodesAsString(m.role)
    /\ DecodesAsString(m.messageId) /\ DecodesAsString(m.taskId)
    /\ m.parts.t \in {"absent", "array"}
    /\ \A i \in 1..Len(m.parts.items) : PartDecodes(m.parts.items[i])

DecodeMessage(m) ==
    [Kind      |-> StringField(m.kind),
     Role      |-> StringField(m.role),
     Parts     |-> [i \in 1..Len(m.parts.items) |-> DecodePart(m.parts.items[i])],
     MessageID |-> StringField(m.messageId),
     TaskID    |-> StringField(m.taskId),
     Metadata  |-> m.metadata]

(***************************************************************************)
(* internal/handler/a2a_handler.go                                         *)
(***************************************************************************)
NoRPCError == [code |-> 0, message |-> "", data |-> ""]

NoResult == [id |-> "", contextId |-> "",
             status |-> [state |-> "", timestamp |-> "", message |-> NoMessage],
             artifacts |-> << >>, history |-> << >>, kind |-> ""]

NoEnvelope == [jsonrpc |-> "", id |-> "", result |-> NoResult, error |-> NoRPCError]

\* one write to the http.ResponseWriter: the status line, the Content-Type and the
\* body, which is a JSON-RPC envelope (rpc), a FlashcardSet (set) or text
writeResponse(response, statusCode) ==
    [status |-> statusCode, ctype |-> "application/json",
     rpc |-> response, set |-> NoSet, text |-> ""]

\* sendError that does not echo the id it is given
sendError_EmptyID(id, code, message, data) ==
    writeResponse([jsonrpc |-> "2.0", id |-> "", result |-> NoResult,
                   error |-> [code |-> code, message |-> message, data |-> data]], StatusOK)

sendError(id, code, message, data) ==
    writeResponse([jsonrpc |-> "2.0", id |-> id, result |-> NoResult,
                   error |-> [code |-> code, message |-> message, data |-> data]], StatusOK)

sendSuccess(id, result) ==
    writeResponse([jsonrpc |-> "2.0", id |-> id, result |-> result, error |-> NoRPCError],
                  StatusOK)

\* extractMessage that ignores the error of json.Unmarshal
extractMessage_IgnoreDecodeError(params) ==
    IF ~(params.t = "object" /\ params.message.t = "object")
    THEN [err |-> NewAppError(InvalidParams, "Missing or invalid 'message' parameter", ""),
          msg |-> NoMessage]
    ELSE [err |-> NoError, msg |-> DecodeMessage(params.message)]

\* params is the decoded params map: [t : "absent" | "object", message]
extractMessage(params) ==
    IF ~(params.t = "object" /\ params.message.t = "object")
    THEN [err |-> NewAppError(InvalidParams, "Missing or invalid 'message' parameter", ""),
          msg |-> NoMessage]
    ELSE IF ~MessageDecodes(params.message)
    THEN [err |-> NewAppError(InvalidParams, "Invalid message format", "json error"),
          msg |-> NoMessage]
    ELSE [err |-> NoError, msg |-> DecodeMessage(params.message)]

RECURSIVE FirstText(_, _)
FirstText(parts, i) ==
    IF i > Len(parts) THEN ""
    ELSE IF parts[i].Kind = KindText THEN parts[i].Text
    ELSE FirstText(parts, i + 1)

\* extractUserInput that keeps scanning and returns the last text part
RECURSIVE LastText(_, _)
LastText(parts, i) ==
    IF i = 0 THEN ""
    ELSE IF parts[i].Kind = KindText THEN parts[i].Text
    ELSE LastText(parts, i - 1)

extractUserInput_LastText(msg) == LastText(msg.Parts, Len(msg.Parts))

extractUserInput(msg) == FirstText(msg.Parts, 1)

\* the bytes extractPDFData returns: [nil : BOOLEAN, bytes : string]
NilBytes == [nil |-> TRUE, bytes |-> ""]
Bytes(b) == [nil |-> FALSE, bytes |-> b]

RECURSIVE FirstPDFData(_, _)
FirstPDFData(parts, i) ==
    IF i > Len(parts) THEN NilBytes
    ELSE LET d == parts[i].Data
         IN  IF parts[i].Kind # KindData THEN FirstPDFData(parts, i + 1)
             ELSE IF /\ d.t = "object"
                     /\ d.contentType.t = "string"
                     /\ d.contentType.s = "application/pdf"
                     /\ d.data.t = "string"
             THEN Bytes(d.data.s)
             ELSE IF d.t = "object" /\ d.pdf.t = "bytes"
             THEN Bytes(d.pdf.s)
             ELSE IF d.t = "bytes"
             THEN Bytes(d.s)
             ELSE FirstPDFData(parts, i + 1)

extractPDFData(msg) == FirstPDFData(msg.Parts, 1)

\* uuid.New().String()[:8]
Prefix8(u) == SubSeq(u, 1, Min(8, Len(u)))

\* buildTaskResult that generates a task id even when the message carries one
buildTaskResult_AlwaysFreshID(flashcards, userMsg, o) ==
    LET taskID == "task-" \o Prefix8(o.uuids[1])
        responseMsg ==
            [Kind      |-> KindMessage,
             Role      |-> RoleAgent,
             MessageID |-> "msg-" \o Prefix8(o.uuids[2]),
             Parts     |-> <<[Kind |-> KindText, Text |-> FormatAsText(flashcards),
                              Data |-> ScalarPayload(Absent)]>>,
             TaskID    |-> "",
             Metadata  |-> Absent]
        artifacts ==
            <<[artifactId |-> "artifact-" \o o.uuids[3],
               name       |-> "flashcardSet",
               parts      |-> <<[Kind |-> KindData, Text |-> "", Data |-> flashcards]>>]>>
    IN  [id        |-> taskID,
         contextId |-> "ctx-" \o o.uuids[4],
         status    |-> [state |-> StateCompleted, timestamp |-> o.later, message |-> responseMsg],
         artifacts |-> artifacts,
         history   |-> <<userMsg, responseMsg>>,
         kind      |-> "task"]

\* buildTaskResult that puts the agent message first in the history
buildTaskResult_ReversedHistory(flashcards, userMsg, o) ==
    LET fresh  == userMsg.TaskID = ""
        k      == IF fresh THEN 1 ELSE 0
        taskID == IF fresh THEN "task-" \o Prefix8(o.uuids[1]) ELSE userMsg.TaskID
        responseMsg ==
            [Kind      |-> KindMessage,
             Role      |-> RoleAgent,
             MessageID |-> "msg-" \o Prefix8(o.uuids[k + 1]),
             Parts     |-> <<[Kind |-> KindText, Text |-> FormatAsText(flashcards),
                              Data |-> ScalarPayload(Absent)]>>,
             TaskID    |-> "",
             Metadata  |-> Absent]
        artifacts ==
            <<[artifactId |-> "artifact-" \o o.uuids[k + 2],
               name       |-> "flashcardSet",
               parts      |-> <<[Kind |-> KindData, Text |-> "", Data |-> flashcards]>>]>>
    IN  [id        |-> taskID,
         contextId |-> "ctx-" \o o.uuids[k + 3],
         status    |-> [state |-> StateCompleted, timestamp |-> o.later, message |-> responseMsg],
         artifacts |-> artifacts,
         history   |-> <<responseMsg, userMsg>>,
         kind      |-> "task"]

\* o.uuids are the values of the successive uuid.New() calls, o.later is time.Now()
buildTaskResult(flashcards, userMsg, o) ==
    LET fresh  == userMsg.TaskID = ""
        k      == IF fresh THEN 1 ELSE 0
        taskID == IF fresh THEN "task-" \o Prefix8(o.uuids[1]) ELSE userMsg.TaskID
        responseMsg ==
            [Kind      |-> KindMessage,
             Role      |-> RoleAgent,
             MessageID |-> "msg-" \o Prefix8(o.uuids[k + 1]),
             Parts     |-> <<[Kind |-> KindText, Text |-> FormatAsText(flashcards),
                              Data |-> ScalarPayload(Absent)]>>,
             TaskID    |-> "",
             Metadata  |-> Absent]
        artifacts ==
            <<[artifactId |-> "artifact-" \o o.uuids[k + 2],
               name       |-> "flashcardSet",
               parts      |-> <<[Kind |-> KindData, Text |-> "", Data |-> flashcards]>>]>>
    IN  [id        |-> taskID,
         contextId |-> "ctx-" \o o.uuids[k + 3],
         status    |-> [state |-> StateCompleted, timestamp |-> o.later, message |-> responseMsg],
         artifacts |-> artifacts,
         history   |-> <<userMsg, responseMsg>>,
         kind      |-> "task"]

\* result: the error or the task result, the route logged, the collaborator calls
processRequest(s, input, userMsg, o) ==
    LET pdfURL  == ExtractPDFURL(input)
        pdfData == extractPDFData(userMsg)
        route   == IF pdfURL # "" THEN "url" ELSE IF ~pdfData.nil THEN "pdf" ELSE "text"
        g       == IF route = "url" THEN GenerateFromURL(s, pdfURL, o)
                   ELSE IF route = "pdf" THEN GenerateFromPDFData(s, pdfData.bytes, o)
                   ELSE GenerateFromText(s, input, o)
    IN  IF g.err # NoError
        THEN [err |-> g.err, result |-> NoResult, route |-> route, calls |-> g.calls]
        ELSE [err |-> NoError, result |-> buildTaskResult(g.set, userMsg, o),
              route |-> route, calls |-> g.calls]

\* outcome of a handler: the response written, the route logged, the calls made
Outcome(resp, route, calls) == [writes |-> <<resp>>, route |-> route, calls |-> calls]

\* outcome of a handler that panics: the server recovers the panic and closes the
\* connection, no response is written
Panicked(route, calls) == [writes |-> << >>, route |-> route, calls |-> calls]

handleMessageSend(s, req, o) ==
    LET m == extractMessage(req.Params)
    IN  IF m.err # NoError
        THEN Outcome(sendError(req.ID, m.err.Code, m.err.Message, ErrorString(m.err)),
                     "none", << >>)
        ELSE LET userInput == extractUserInput(m.msg)
             IN  IF userInput = ""
                 THEN Outcome(sendError(req.ID, InvalidParams, "Invalid params",
                                        "No text content found in message"), "none", << >>)
                 ELSE LET p == processRequest(s, userInput, m.msg, o)
                      IN  IF p.err = Panic THEN Panicked(p.route, p.calls)
                          ELSE IF p.err # NoError
                          THEN Outcome(sendError(req.ID, p.err.Code, p.err.Message,
                                                 ErrorString(p.err)), p.route, p.calls)
                          ELSE Outcome(sendSuccess(req.ID, p.result), p.route, p.calls)

\* json.NewDecoder(r.Body).Decode(&req): body = [t : "malformed" | "json",
\* jsonrpc, id, method : scalar, params : [t, message]]
BodyDecodes(body) ==
    /\ body.t = "json"
    /\ DecodesAsString(body.jsonrpc) /\ DecodesAsString(body.id) /\ DecodesAsString(body.method)
    /\ body.params.t \in {"absent", "object"}

DecodeRequest(body) ==
    [JSONRPC |-> StringField(body.jsonrpc),
     ID      |-> StringField(body.id),
     Method  |-> StringField(body.method),
     Params  |-> body.params]

ServeHTTP(s, r, o) ==
    IF r.verb # "POST"
    THEN Outcome(sendError("unknown", InvalidRequest, "Only POST method is supported", ""),
                 "none", << >>)
    ELSE IF ~BodyDecodes(r.body)
    THEN Outcome(sendError("", ParseError, "Parse error", "json error"), "none", << >>)
    ELSE LET req == DecodeRequest(r.body)
         IN  IF req.JSONRPC # "2.0"
             THEN Outcome(sendError(req.ID, InvalidRequest, "Invalid Request",
                                    "jsonrpc must be 2.0"), "none", << >>)
             ELSE IF req.Method = "message/send"
             THEN handleMessageSend(s, req, o)
             ELSE Outcome(sendError(req.ID, MethodNotFound, "Method not found",
                                    "Method " \o req.Method \o " not supported"), "none", << >>)

(***************************************************************************)
(* main.go: the upload and health handlers                                 *)
(***************************************************************************)
\* http.Error(w, msg, code)
httpError(msg, code) ==
    [status |-> code, ctype |-> "text/plain; charset=utf-8",
     rpc |-> NoEnvelope, set |-> NoSet, text |-> msg \o "\n"]

\* r.form = [t : "malformed" | "nofile" | "file", content : bytes, readerr : BOOLEAN];
\* file.Read on an empty in-memory file returns io.EOF
uploadHandler(s, r, o) ==
    IF r.verb # "POST"
    THEN Outcome(httpError("Only POST method is allowed", StatusMethodNotAllowed), "none", << >>)
    ELSE IF r.form.t = "malformed"
    THEN Outcome(httpError("Failed to parse multipart form", StatusBadRequest), "none", << >>)
    ELSE IF r.form.t = "nofile"
    THEN Outcome(httpError("Failed to get PDF file from form", StatusBadRequest), "none", << >>)
    ELSE IF r.form.readerr \/ Len(r.form.content) = 0
    THEN Outcome(httpError("Failed to read PDF file", StatusInternalServerError), "none", << >>)
    ELSE LET g == GenerateFromPDFData(s, r.form.content, o)
         IN  IF g.err = Panic THEN Panicked("none", g.calls)
             ELSE IF g.err # NoError
             THEN Outcome(httpError("Failed to generate flashcards: " \o ErrorString(g.err),
                                    StatusInternalServerError), "none", g.calls)
             ELSE Outcome([status |-> StatusOK, ctype |-> "application/json",
                           rpc |-> NoEnvelope, set |-> g.set, text |-> ""], "none", g.calls)

healthCheckHandler(r) ==
    Outcome([status |-> StatusOK, ctype |-> "application/json", rpc |-> NoEnvelope,
             set |-> NoSet, text |-> "{\"status\":\"healthy\",\"service\":\"flashcard-generator\"}"],
            "none", << >>)

(***************************************************************************)
(* The requests and collaborator answers the model is checked on           *)
(***************************************************************************)
MaxParts == 2

SeqsUpTo(S, n) == UNION {[1..k -> S] : k \in 0..n}

TextPart(sc) == [kind |-> Str(KindText), text |-> sc, data |-> ScalarPayload(Absent)]
DataPart(pl) == [kind |-> Str(KindData), text |-> Absent, data |-> pl]

PlainText == "Explain mitosis"
URLText == "see http://x/a.PDF, ok"
PDFBytes == "%PDF-1.4 x"
InlinePDF == "%PDF-1.7 inline"

PartObjs ==
    { TextPart(Str(PlainText)),
      TextPart(Str(URLText)),
      TextPart(Str("")),
      TextPart(Str(" \n" \o VerticalTab)),
      TextPart(Num),
      [TextPart(Str(PlainText)) EXCEPT
           !.data = ObjectPayload(Str("application/pdf"), Str(InlinePDF), Absent)],
      DataPart(ObjectPayload(Str("application/pdf"), Str(InlinePDF), Absent)),
      DataPart(ObjectPayload(Str("application/pdf"), Num, Absent)),
      DataPart(ObjectPayload(Str("text/plain"), Str(InlinePDF), Absent)),
      DataPart(ScalarPayload(Str("JVBERi0xLjQgeA=="))) }

\* a key of the JSON message that the Message struct has no field for
ClientContextID == "ctx-client-1"

\* a value of the key "metadata" of the JSON message
ClientMetadata == Object("{\"lang\":\"en\"}")

MessageObj(taskId, parts) ==
    [t |-> "object", kind |-> Str(KindMessage), role |-> Str(RoleUser),
     messageId |-> Str("msg-001"), taskId |-> taskId, contextId |-> Str(ClientContextID),
     metadata |-> Absent, parts |-> parts]

NoMessageParam == [t |-> "absent", kind |-> Absent, role |-> Absent, messageId |-> Absent,
                   taskId |-> Absent, contextId |-> Absent, metadata |-> Absent,
                   parts |-> [t |-> "absent", items |-> << >>]]

MessageObjs ==
    { MessageObj(tid, ps) :
        tid \in {Absent, Str("task-001")},
        ps  \in {[t |-> "absent", items |-> << >>], [t |-> "string", items |-> << >>]}
                \cup {[t |-> "array", items |-> its] : its \in SeqsUpTo(PartObjs, MaxParts)} }
    \cup
    { MessageObj(Num, ps) :
        ps  \in {[t |-> "absent", items |-> << >>], [t |-> "string", items |-> << >>]}
                \cup {[t |-> "array", items |-> its] : its \in SeqsUpTo(PartObjs, 1)} }
    \cup
    { [MessageObj(tid, [t |-> "array", items |-> <<TextPart(Str(txt))>>])
           EXCEPT !.metadata = md] :
        tid \in {Absent, Str("task-001")}, txt \in {PlainText, URLText},
        md  \in {ClientMetadata, Str("draft")} }

ParamsObj(message) == [t |-> "object", message |-> message]

SmallParams ==
    { [t |-> "absent", message |-> NoMessageParam],
      [t |-> "string", message |-> NoMessageParam],
      ParamsObj(NoMessageParam),
      ParamsObj([NoMessageParam EXCEPT !.t = "string"]),
      ParamsObj(MessageObj(Absent, [t |-> "array", items |-> <<TextPart(Str(PlainText))>>])) }

JSONBody(jsonrpc, id, method, params) ==
    [t |-> "json", jsonrpc |-> jsonrpc, id |-> id, method |-> method, params |-> params]

MalformedBody == [JSONBody(Absent, Absent, Absent, ParamsObj(NoMessageParam)) EXCEPT !.t = "malformed"]

NoForm == [t |-> "none", content |-> "", readerr |-> FALSE]

A2ARequest(verb, body) == [endpoint |-> "a2a", verb |-> verb, body |-> body, form |-> NoForm]

EnvelopeRequests ==
    { A2ARequest(verb, body) :
        verb \in {"POST", "GET", "PUT"},
        body \in {MalformedBody} \cup
                 { JSONBody(v, id, m, ps) :
                     v  \in {Absent, Str("1.0"), Str("2.0"), Num},
                     id \in {Absent, Str("req-1")},
                     m  \in {Absent, Str("message/send"), Str("tasks/get")},
                     ps \in SmallParams } }

MessageRequests ==
    { A2ARequest("POST", JSONBody(Str("2.0"), Str("req-1"), Str("message/send"), ParamsObj(m))) :
        m \in MessageObjs }

A2ARequests == EnvelopeRequests \cup MessageRequests

UploadRequests ==
    { [endpoint |-> "upload", verb |-> verb, body |-> MalformedBody, form |-> f] :
        verb \in {"POST", "GET"},
        f \in { [t |-> "malformed", content |-> "", readerr |-> FALSE],
                [t |-> "nofile", content |-> "", readerr |-> FALSE] }
              \cup { [t |-> "file", content |-> c, readerr |-> e] :
                       c \in {"", PDFBytes, "%PD", "<html>"}, e \in BOOLEAN } }

HealthRequests ==
    { [endpoint |-> "health", verb |-> verb, body |-> MalformedBody, form |-> NoForm] :
        verb \in {"GET", "POST"} }

TwoCards == "Q: What is mitosis?\nA: Cell division\nT: Biology\n\nQ: Phases?\nA: Four"

Fetches ==
    { [t |-> "neterr", status |-> 0, data |-> ""],
      [t |-> "ok", status |-> 404, data |-> ""],
      [t |-> "readerr", status |-> 200, data |-> ""],
      [t |-> "ok", status |-> 200, data |-> PDFBytes],
      [t |-> "ok", status |-> 200, data |-> "<html>"] }

PageText(text) == [t |-> "ok", text |-> text]
PageFails == [t |-> "err", text |-> ""]
NullPage == [t |-> "null", text |-> ""]

Document(pages) == [t |-> "doc", pages |-> pages]

Extracts ==
    { [t |-> "reader", pages |-> << >>],
      Document(<<PageFails>>),
      Document(<<PageText("Cells "), PageFails>>),
      Document(<<PageText("Cells "), NullPage, PageText("divide.")>>),
      Document(<<PageText(" \n"), PageText(VerticalTab)>>) }

Gens ==
    { [t |-> "err", text |-> ""],
      [t |-> "empty", text |-> ""],
      [t |-> "ok", text |-> TwoCards],
      [t |-> "ok", text |-> "Sorry, I cannot help."],
      [t |-> "ok", text |-> "Q: \nA: Four\n\nQ: Phases?\n\nA: Four"] }

Clocks ==
    { [now |-> "2025-11-07T10:30:00Z", later |-> "2025-11-07T10:30:00Z",
       uuids |-> <<"3f2a9c1e-0001", "7b6d5e4f-0002", "a1b2c3d4-0003", "e5f6a7b8-0004">>],
      [now |-> "2025-11-07T10:30:59Z", later |-> "2025-11-07T10:31:00Z",
       uuids |-> <<"0c0d0e0f-0005", "9a8b7c6d-0006", "5e4d3c2b-0007", "1f2e3d4c-0008">>] }

Oracles ==
    { [fetch |-> f, extract |-> x, gen |-> g, now |-> c.now, later |-> c.later, uuids |-> c.uuids] :
        f \in Fetches, x \in Extracts, g \in Gens, c \in Clocks }

(***************************************************************************)
(* The server.  main creates the services once; net/http serves every      *)
(* request in a goroutine of its own.  A goroutine runs its handler and    *)
(* blocks where the handler waits for the network: in the decoding of the  *)
(* request body, in the parsing of the multipart form, in the download of  *)
(* DownloadPDF (the Get and the reading of the response body) and in       *)
(* GenerateContent.  A goroutine is                                        *)
(*   [pc : "idle" | "decode" | "parse" | "fetch" | "read" | "generate" |   *)
(*         "done" (the handler has returned or panicked),                  *)
(*    r : its request, o : the answers of its collaborators when they are  *)
(*    fixed as the request is accepted, ctx : the state of r.Context(),    *)
(*    call : the outbound call it is blocked in,                           *)
(*    url, resp, text, source : its local variables,                       *)
(*    route : the route processRequest logged,                             *)
(*    calls : the collaborator calls it has made, a call whose result is   *)
(*            not there yet being "pending",                               *)
(*    writes : what it wrote to its ResponseWriter]                        *)
(* and a step of a goroutine gives its next state and the shared objects.  *)
(***************************************************************************)
\* applied, input and output are used by the specification of the functions below:
\* the function applied ("none" before), its argument and its result
\* goroutines are the goroutines of the requests, shared the objects that main creates
\* once and every request uses
VARIABLES applied, input, output, goroutines, shared

vars == <<applied, input, output, goroutines, shared>>

\* the answers of genai.NewClient when the process starts
NewClientAnswers == {"ok", "err"}

NewA2AHandler(flashcardService) == [flashcardService |-> flashcardService]

\* main up to the start of the server: the PDF service, the flashcard service (nil when
\* the client of the generative model could not be made: main does not look at it) and
\* the handler, which is given the flashcard service of main
main(client) ==
    [pdfService       |-> NewPDFService,
     flashcardService |-> NewFlashcardService("pdfService", client),
     a2aHandler       |-> NewA2AHandler("flashcardService")]

\* the objects main can have made when the server starts
SharedObjects == {main(client) : client \in NewClientAnswers}

NoInput == [fn |-> "none"]
NoOutput == [fn |-> "none"]

NoRequest == [endpoint |-> "none", verb |-> "", body |-> MalformedBody, form |-> NoForm]

NoOracle == [fetch |-> [t |-> "none", status |-> 0, data |-> ""],
             extract |-> [t |-> "none", pages |-> << >>],
             gen |-> [t |-> "none", text |-> ""],
             now |-> "", later |-> "", uuids |-> << >>]

\* an outbound call: the context it was given and the timeout of its client (0: none)
NoCall == [op |-> "none", arg |-> "", ctx |-> "none", timeout |-> 0, via |-> ""]

IdleGoroutine ==
    [pc |-> "idle", r |-> NoRequest, o |-> NoOracle, ctx |-> "none", call |-> NoCall,
     url |-> "", resp |-> NoOracle.fetch, text |-> "", source |-> "",
     route |-> "none", calls |-> << >>, writes |-> << >>]

NewGoroutine(r, o) == [IdleGoroutine EXCEPT !.pc = "start", !.r = r, !.o = o, !.ctx = "active"]

\* the goroutine writes its response and its handler returns
Finish(g, resp, sh) ==
    [g |-> [g EXCEPT !.pc = "done", !.call = NoCall, !.writes = <<resp>>], sh |-> sh]

\* the handler panics: the server recovers the panic and closes the connection, the
\* goroutine has written nothing
Panics(g, sh) == [g |-> [g EXCEPT !.pc = "done", !.call = NoCall], sh |-> sh]

\* handleMessageSend and uploadHandler on an error of the flashcard service
Fail(g, err, sh) ==
    IF g.r.endpoint = "upload"
    THEN Finish(g, httpError("Failed to generate flashcards: " \o ErrorString(err),
                             StatusInternalServerError), sh)
    ELSE Finish(g, sendError(DecodeRequest(g.r.body).ID, err.Code, err.Message,
                             ErrorString(err)), sh)

\* handleMessageSend and uploadHandler on a FlashcardSet; clock has the time and the
\* identifiers that buildTaskResult draws
Succeed(g, set, clock, sh) ==
    IF g.r.endpoint = "upload"
    THEN Finish(g, [status |-> StatusOK, ctype |-> "application/json",
                    rpc |-> NoEnvelope, set |-> set, text |-> ""], sh)
    ELSE LET req == DecodeRequest(g.r.body)
         IN  Finish(g, sendSuccess(req.ID, buildTaskResult(set, extractMessage(req.Params).msg,
                                                           clock)), sh)

\* generateFlashcards that sets the prompt as the system instruction of the shared
\* model handle before it calls the model
CallGenerate_ConfiguresModel(g, text, source, sh) ==
    IF Len(TrimSpace(text)) = 0
    THEN Fail(g, NewAppError(InvalidParams, "no content to generate flashcards from", ""), sh)
    ELSE IF sh.flashcardService.nil THEN Panics(g, sh)
    ELSE [g  |-> [g EXCEPT !.pc = "generate", !.text = text, !.source = source,
                           !.call = [op |-> "generate", arg |-> Prompt(text),
                                     ctx |-> "background", timeout |-> 0,
                                     via |-> sh.flashcardService.model],
                           !.calls = Append(@, Call("generate", Prompt(text), "pending", ""))],
          sh |-> [sh EXCEPT !.flashcardService.model = Prompt(text)]]

\* generateFlashcards that calls the model whatever the text is
CallGenerate_NoContentCheck(g, text, source, sh) ==
    IF sh.flashcardService.nil THEN Panics(g, sh)
    ELSE [g  |-> [g EXCEPT !.pc = "generate", !.text = text, !.source = source,
                           !.call = [op |-> "generate", arg |-> Prompt(text),
                                     ctx |-> "background", timeout |-> 0,
                                     via |-> sh.flashcardService.model],
                           !.calls = Append(@, Call("generate", Prompt(text), "pending", ""))],
          sh |-> sh]

\* generateFlashcards up to s.model.GenerateContent(context.Background(), ...), in which
\* the goroutine waits
CallGenerate(g, text, source, sh) ==
    IF Len(TrimSpace(text)) = 0
    THEN Fail(g, NewAppError(InvalidParams, "no content to generate flashcards from", ""), sh)
    ELSE IF sh.flashcardService.nil THEN Panics(g, sh)
    ELSE [g  |-> [g EXCEPT !.pc = "generate", !.text = text, !.source = source,
                           !.call = [op |-> "generate", arg |-> Prompt(text),
                                     ctx |-> "background", timeout |-> 0,
                                     via |-> sh.flashcardService.model],
                           !.calls = Append(@, Call("generate", Prompt(text), "pending", ""))],
          sh |-> sh]

\* ValidatePDF, ExtractText (which answers extract) and the start of generateFlashcards
ProcessPDFData(g, pdfData, source, extract, sh) ==
    IF sh.flashcardService.nil THEN Panics(g, sh)
    ELSE LET v  == ValidatePDF(pdfData)
             g1 == [g EXCEPT !.calls = Append(@, Call("validate", pdfData,
                                                      IF v = NoError THEN "ok" ELSE "invalid", ""))]
         IN  IF v # NoError THEN Fail(g1, v, sh)
             ELSE LET x  == ExtractText(pdfData, extract)
                      g2 == [g1 EXCEPT !.calls = Append(@, Call("extract", pdfData,
                                                               ExtractResult(x), x.text))]
                  IN  IF x.err # NoError THEN Fail(g2, x.err, sh)
                      ELSE CallGenerate(g2, x.text, source, sh)

\* GenerateFromURL and DownloadPDF up to s.httpClient.Get(url), in which the goroutine
\* waits: no context, the timeout of the client
CallDownload(g, url, sh) ==
    IF sh.flashcardService.nil THEN Panics(g, sh)
    ELSE [g  |-> [g EXCEPT !.pc = "fetch", !.url = url,
                           !.call = [op |-> "fetch", arg |-> url, ctx |-> "background",
                                     timeout |-> sh.pdfService.httpClient.Timeout,
                                     via |-> "httpClient"],
                           !.calls = Append(@, Call("fetch", url, "pending", ""))],
          sh |-> sh]

\* uploadHandler up to r.ParseMultipartForm, in which the goroutine waits for the body
ServeUpload(g, sh) ==
    IF g.r.verb # "POST"
    THEN Finish(g, httpError("Only POST method is allowed", StatusMethodNotAllowed), sh)
    ELSE [g |-> [g EXCEPT !.pc = "parse"], sh |-> sh]

\* r.ParseMultipartForm returns: uploadHandler up to the first outbound call or to its
\* response
ParseMultipartFormReturns(g, extract, sh) ==
    IF g.r.form.t = "malformed"
    THEN Finish(g, httpError("Failed to parse multipart form", StatusBadRequest), sh)
    ELSE IF g.r.form.t = "nofile"
    THEN Finish(g, httpError("Failed to get PDF file from form", StatusBadRequest), sh)
    ELSE IF g.r.form.readerr \/ Len(g.r.form.content) = 0
    THEN Finish(g, httpError("Failed to read PDF file", StatusInternalServerError), sh)
    ELSE ProcessPDFData(g, g.r.form.content, "uploaded_pdf", extract, sh)

\* processRequest that looks for a PDF data part before it looks for a URL
Route_DataFirst(g, userInput, userMsg, extract, sh) ==
    LET pdfData == extractPDFData(userMsg)
    IN  IF ~pdfData.nil
        THEN ProcessPDFData([g EXCEPT !.route = "pdf"], pdfData.bytes, "uploaded_pdf", extract, sh)
        ELSE IF ExtractPDFURL(userInput) # ""
        THEN CallDownload([g EXCEPT !.route = "url"], ExtractPDFURL(userInput), sh)
        ELSE CallGenerate([g EXCEPT !.route = "text"], userInput, "user_input", sh)

\* processRequest up to the first outbound call or to the error of the route
Route(g, userInput, userMsg, extract, sh) ==
    LET pdfURL == ExtractPDFURL(userInput)
    IN  IF pdfURL # "" THEN CallDownload([g EXCEPT !.route = "url"], pdfURL, sh)
        ELSE LET pdfData == extractPDFData(userMsg)
             IN  IF ~pdfData.nil
                 THEN ProcessPDFData([g EXCEPT !.route = "pdf"], pdfData.bytes, "uploaded_pdf",
                                     extract, sh)
                 ELSE CallGenerate([g EXCEPT !.route = "text"], userInput, "user_input", sh)

\* handleMessageSend that does not look at the user input before it routes
ServeMessageSend_NoInputCheck(g, req, extract, sh) ==
    LET m == extractMessage(req.Params)
    IN  IF m.err # NoError THEN Fail(g, m.err, sh)
        ELSE Route(g, extractUserInput(m.msg), m.msg, extract, sh)

\* handleMessageSend up to the call of processRequest
ServeMessageSend(g, req, extract, sh) ==
    LET m == extractMessage(req.Params)
    IN  IF m.err # NoError THEN Fail(g, m.err, sh)
        ELSE IF extractUserInput(m.msg) = ""
        THEN Finish(g, sendError(req.ID, InvalidParams, "Invalid params",
                                 "No text content found in message"), sh)
        ELSE Route(g, extractUserInput(m.msg), m.msg, extract, sh)

\* ServeHTTP that dispatches on the method before it looks at the version
DecodeReturns_DispatchFirst(g, extract, sh) ==
    IF ~BodyDecodes(g.r.body)
    THEN Finish(g, sendError("", ParseError, "Parse error", "json error"), sh)
    ELSE IF DecodeRequest(g.r.body).Method = "message/send"
    THEN ServeMessageSend(g, DecodeRequest(g.r.body), extract, sh)
    ELSE IF DecodeRequest(g.r.body).JSONRPC # "2.0"
    THEN Finish(g, sendError(DecodeRequest(g.r.body).ID, InvalidRequest, "Invalid Request",
                             "jsonrpc must be 2.0"), sh)
    ELSE Finish(g, sendError(DecodeRequest(g.r.body).ID, MethodNotFound, "Method not found",
                             "Method " \o DecodeRequest(g.r.body).Method \o " not supported"), sh)

\* ServeHTTP that handles every method as message/send
DecodeReturns_AnyMethod(g, extract, sh) ==
    IF ~BodyDecodes(g.r.body)
    THEN Finish(g, sendError("", ParseError, "Parse error", "json error"), sh)
    ELSE IF DecodeRequest(g.r.body).JSONRPC # "2.0"
    THEN Finish(g, sendError(DecodeRequest(g.r.body).ID, InvalidRequest, "Invalid Request",
                             "jsonrpc must be 2.0"), sh)
    ELSE ServeMessageSend(g, DecodeRequest(g.r.body), extract, sh)

\* json.NewDecoder(r.Body).Decode(&req) returns: ServeHTTP up to the first outbound call
\* or to its response
DecodeReturns(g, extract, sh) ==
    IF ~BodyDecodes(g.r.body)
    THEN Finish(g, sendError("", ParseError, "Parse error", "json error"), sh)
    ELSE IF DecodeRequest(g.r.body).JSONRPC # "2.0"
    THEN Finish(g, sendError(DecodeRequest(g.r.body).ID, InvalidRequest, "Invalid Request",
                             "jsonrpc must be 2.0"), sh)
    ELSE IF DecodeRequest(g.r.body).Method = "message/send"
    THEN ServeMessageSend(g, DecodeRequest(g.r.body), extract, sh)
    ELSE Finish(g, sendError(DecodeRequest(g.r.body).ID, MethodNotFound, "Method not found",
                             "Method " \o DecodeRequest(g.r.body).Method \o " not supported"), sh)

\* ServeHTTP that decodes the body whatever the HTTP method is
ServeA2A_NoMethodCheck(g, sh) == [g |-> [g EXCEPT !.pc = "decode"], sh |-> sh]

\* ServeHTTP up to json.NewDecoder(r.Body).Decode(&req), in which the goroutine waits
\* for the body
ServeA2A(g, sh) ==
    IF g.r.verb # "POST"
    THEN Finish(g, sendError("unknown", InvalidRequest, "Only POST method is supported", ""), sh)
    ELSE [g |-> [g EXCEPT !.pc = "decode"], sh |-> sh]

\* the handler of the request of g, from its start to its first wait or to its response
Serve(g, sh) ==
    IF g.r.endpoint = "upload" THEN ServeUpload(g, sh)
    ELSE IF g.r.endpoint = "health" THEN Finish(g, healthCheckHandler(g.r).writes[1], sh)
    ELSE ServeA2A(g, sh)

\* DownloadPDF that calls s.httpClient.Get a second time when the first call failed
GetReturns_RetryDownload(g, fetch, sh) ==
    IF fetch.t = "neterr" \/ fetch.status # StatusOK
    THEN IF Len(g.calls) = 1
         THEN [g  |-> [g EXCEPT !.calls = Append([@ EXCEPT ![1].res = "failed"],
                                                 Call("fetch", g.url, "pending", ""))],
               sh |-> sh]
         ELSE Fail([g EXCEPT !.calls[Len(g.calls)].res = "failed"],
                   DownloadPDF(g.url, fetch).err, sh)
    ELSE [g |-> [g EXCEPT !.pc = "read", !.resp = fetch], sh |-> sh]

\* s.httpClient.Get(url) returns with the answer fetch: DownloadPDF up to
\* io.ReadAll(resp.Body), in which the goroutine waits for the body
GetReturns(g, fetch, sh) ==
    IF fetch.t = "neterr" \/ fetch.status # StatusOK
    THEN Fail([g EXCEPT !.calls[Len(g.calls)].res = "failed"],
              DownloadPDF(g.url, fetch).err, sh)
    ELSE [g |-> [g EXCEPT !.pc = "read", !.resp = fetch], sh |-> sh]

\* GenerateFromURL that goes on with the text of the message when the download failed
ReadAllReturns_Fallback(g, extract, sh) ==
    LET dl == DownloadPDF(g.url, g.resp)
    IN  IF dl.err # NoError
        THEN CallGenerate([g EXCEPT !.call = NoCall, !.calls[Len(g.calls)].res = "failed"],
                          extractUserInput(extractMessage(DecodeRequest(g.r.body).Params).msg),
                          "user_input", sh)
        ELSE ProcessPDFData([g EXCEPT !.call = NoCall,
                                      !.calls[Len(g.calls)] = [@ EXCEPT !.res = "ok",
                                                                        !.out = dl.data]],
                            dl.data, g.url, extract, sh)

\* io.ReadAll(resp.Body) returns: the rest of DownloadPDF and GenerateFromURL up to
\* the next outbound call or to its error
ReadAllReturns(g, extract, sh) ==
    LET dl == DownloadPDF(g.url, g.resp)
    IN  IF dl.err # NoError
        THEN Fail([g EXCEPT !.calls[Len(g.calls)].res = "failed"], dl.err, sh)
        ELSE ProcessPDFData([g EXCEPT !.call = NoCall,
                                      !.calls[Len(g.calls)] = [@ EXCEPT !.res = "ok",
                                                                        !.out = dl.data]],
                            dl.data, g.url, extract, sh)

\* GenerateContent returns with the answer gen: the rest of generateFlashcards and of
\* the handler
GenerateReturns(g, gen, clock, sh) ==
    LET res == generateFlashcards(sh.flashcardService, g.text, g.source, gen, clock.now)
        g1  == [g EXCEPT !.calls[Len(g.calls)] = [@ EXCEPT !.res = gen.t, !.out = gen.text]]
    IN  IF res.err # NoError THEN Fail(g1, res.err, sh) ELSE Succeed(g1, res.set, clock, sh)

\* r.Context() is cancelled (the client closed the connection, a deadline passed): an
\* outbound call that was given the context of the request returns with an error
Cancelled(g, sh) ==
    IF g.call.ctx = "request"
    THEN Fail([g EXCEPT !.ctx = "cancelled"],
              NewAppError(InternalError, "failed to generate flashcards", "context canceled"), sh)
    ELSE [g |-> [g EXCEPT !.ctx = "cancelled"], sh |-> sh]

\* goroutine i is at one of the places pcs and takes a step with a result of outs
Step(i, pcs, outs) ==
    /\ goroutines[i].pc \in pcs
    /\ \E s \in outs :
           /\ goroutines' = [goroutines EXCEPT ![i] = s.g]
           /\ shared' = s.sh
    /\ UNCHANGED <<applied, input, output>>

(***************************************************************************)
(* The server, seen from one request: one goroutine, every request of the  *)
(* input sets, and every answer of a collaborator at the moment the        *)
(* collaborator answers.  The requests that the server handles at the same *)
(* time are the subject of the specification of concurrent requests        *)
(* further below.                                                          *)
(***************************************************************************)
Init ==
    /\ applied = "none"
    /\ input = NoInput
    /\ output = NoOutput
    /\ goroutines = <<IdleGoroutine>>
    /\ shared \in SharedObjects

\* the server accepts a request and starts the handler that the mux has for its path
Receive ==
    \E r \in A2ARequests \cup UploadRequests \cup HealthRequests :
        Step(1, {"idle"}, {Serve(NewGoroutine(r, NoOracle), shared)})

\* the body of the request has arrived
Decode ==
    Step(1, {"decode"}, {DecodeReturns(goroutines[1], x, shared) : x \in Extracts})

\* the multipart form of the request has arrived
ParseMultipartForm ==
    Step(1, {"parse"}, {ParseMultipartFormReturns(goroutines[1], x, shared) : x \in Extracts})

\* the server of the PDF answers, or the connection to it fails
Get ==
    Step(1, {"fetch"}, {GetReturns(goroutines[1], f, shared) : f \in Fetches})

\* the body of the PDF has arrived, or the reading of it fails
ReadAll ==
    Step(1, {"read"}, {ReadAllReturns(goroutines[1], x, shared) : x \in Extracts})

\* the generative model answers
GenerateContent ==
    Step(1, {"generate"},
         {GenerateReturns(goroutines[1], g, c, shared) : g \in Gens, c \in Clocks})

\* the handler has returned: what the request created is discarded
Discard ==
    Step(1, {"done"}, {[g |-> IdleGoroutine, sh |-> shared]})

Next == Receive \/ Decode \/ ParseMultipartForm \/ Get \/ ReadAll \/ GenerateContent \/ Discard

Spec == Init /\ [][Next]_vars

(***************************************************************************)
(* The functions of the flashcard service on their own: a function is      *)
(* applied once to an argument drawn from the sets below.  A function      *)
(* without a wait is applied in one step; generateFlashcards takes a step  *)
(* to the call of the model and a step when the model has answered.        *)
(***************************************************************************)
MaxBlocks == 3
MaxWords == 2
MaxLines == 3

RECURSIVE Join(_, _)
Join(strs, sep) ==
    IF Len(strs) = 0 THEN ""
    ELSE IF Len(strs) = 1 THEN strs[1]
    ELSE strs[1] \o sep \o Join(Tail(strs), sep)

Card(q, a, t) == [Question |-> q, Answer |-> a, Topic |-> t]

\* blocks of a model response, each with the flashcards it stands for
Blocks ==
    { [text  |-> "Q: What is mitosis?\nA: Cell division\nT: Biology",
       cards |-> <<Card("What is mitosis?", "Cell division", "Biology")>>],
      [text  |-> "  Q:  Phases? \n\tA: Four\t\r\n" \o VerticalTab \o "T:Cell cycle " \o VerticalTab,
       cards |-> <<Card("Phases?", "Four", "Cell cycle")>>],
      [text  |-> "T: Genetics\nA: DNA: a molecule\nnote\nQ: Q: What is DNA?",
       cards |-> <<Card("Q: What is DNA?", "DNA: a molecule", "Genetics")>>],
      [text  |-> "Q: No topic given\nA: Default topic",
       cards |-> <<Card("No topic given", "Default topic", "Concept")>>],
      [text  |-> "Q: Only a question\nT: Orphan",
       cards |-> << >>],
      [text  |-> "A: Only an answer\nT: Orphan",
       cards |-> << >>],
      [text  |-> "1. Q: inline A: inline",
       cards |-> << >>] }

BlockSeqs == SeqsUpTo(Blocks, MaxBlocks)

\* lines of one block: several lines of each prefix, with and without a remainder
Lines ==
    { "Q: First?", VerticalTab \o "Q:  Second? \r" \o VerticalTab, "Q:", "\tQ: \t",
      "A: One", "A:Two ", " A: ",
      "T: Biology", "T:",
      "note Q: A: T:" }

BlockInputs ==
    { [fn |-> "ParseCard", lines |-> ls, text |-> Join(ls, "\n")] :
        ls \in SeqsUpTo(Lines, MaxLines) }

ResponseText(blocks) == Join([i \in 1..Len(blocks) |-> blocks[i].text], "\n\n")

ParseInputs == { [fn |-> "ParseResponse", blocks |-> bs, text |-> ResponseText(bs)] : bs \in BlockSeqs }

\* the FlashcardSets that generateFlashcards builds from these responses
SetSources == {"http://x/Q:A:.pdf", "user_input"}

ProducibleSets ==
    { generateFlashcards(NewFlashcardService("pdfService", "ok"), "Cells divide.", src, [t |-> "ok", text |-> ResponseText(bs)],
                         "2025-11-07T10:30:00Z").set :
        bs \in BlockSeqs, src \in SetSources } \ {NoSet}

RenderInputs == { [fn |-> "FormatAsText", set |-> fs] : fs \in ProducibleSets }

\* texts for ExtractPDFURL: words separated and surrounded by white space
Words ==
    { "http://x/a.pdf",
      "https://e.com/f.PDF,",
      "HTTP://x/b.pdf",
      "http://x/page",
      "b.pdf",
      "http://x/c.pdf?v=1.;.",
      "(http://x/d.pdf)",
      "httpfoo.pdfbar",
      ".,;" }

Layouts ==
    { [lead |-> "", sep |-> " ", trail |-> ""],
      [lead |-> " \n", sep |-> "\t\n ", trail |-> "\r\n"],
      [lead |-> VerticalTab, sep |-> VerticalTab, trail |-> "\f" \o VerticalTab] }

\* the texts of TestFlashcardService_ExtractPDFURL
TestWords ==
    { <<"Please", "analyze", "this", "document:", "https://example.com/document.pdf",
        "and", "generate", "flashcards.">>,
      <<"Check", "out", "https://example.com/file.pdf,", "it's", "interesting.">>,
      <<"This", "is", "just", "plain", "text", "without", "any", "URLs.">>,
      <<"Visit", "https://example.com", "for", "more", "info.">>,
      <<"See", "https://example.com/first.pdf", "and", "https://example.com/second.pdf">> }

URLInput(words, l) ==
    [fn |-> "ExtractPDFURL", words |-> words, text |-> l.lead \o Join(words, l.sep) \o l.trail]

URLInputs ==
    { URLInput(ws, l) : ws \in SeqsUpTo(Words, MaxWords) \cup TestWords, l \in Layouts }

\* sources: those of TestFlashcardService_GenerateTitle, those the service passes, and
\* strings near the prefix "http"
Sources ==
    { "https://example.com/document.pdf", "https://example.com/file.pdf",
      "user_input", "manual entry",
      "uploaded_pdf", "http://x/a.pdf",
      "http", "htt", "", "httpx", "HTTP://x/a.pdf", " http://x/a.pdf", "ftp://x/http.pdf" }

TitleInputs == { [fn |-> "generateTitle", source |-> src] : src \in Sources }

\* arguments of generateFlashcards; the answer of the model is not among them, it
\* arrives while the function waits
GenerateInputs ==
    { [fn |-> "generateFlashcards", s |-> NewFlashcardService("pdfService", client),
       text |-> text, source |-> src] :
        client \in NewClientAnswers, text \in {"Cells divide.", " \n"}, src \in Sources }

FunctionInputs ==
    ParseInputs \cup BlockInputs \cup RenderInputs \cup URLInputs \cup TitleInputs \cup GenerateInputs

FunctionInit ==
    /\ applied = "none"
    /\ input \in FunctionInputs
    /\ output = NoOutput
    /\ goroutines = << >>
    /\ shared = main("ok")

\* f applied to the argument, with result out
Apply(f, out) ==
    /\ applied = "none"
    /\ input.fn = f
    /\ applied' = f
    /\ output' = out
    /\ UNCHANGED <<input, goroutines, shared>>

Parse == Apply("ParseResponse", ParseResponse(input.text))

ParseBlock == Apply("ParseCard", ParseCard(input.text))

\* the set is rendered and the rendered text is parsed again
RenderAndParse ==
    Apply("FormatAsText",
          LET text == FormatAsText(input.set)
          IN  [text |-> text, cards |-> ParseResponse(text)])

ExtractURL == Apply("ExtractPDFURL", ExtractPDFURL(input.text))

Title == Apply("generateTitle", generateTitle(input.source))

\* generateFlashcards up to s.model.GenerateContent: it returns at once for a text
\* without content and panics on a nil service; otherwise the prompt is sent and the
\* function waits for the model (applied = "GenerateContent", the call pending)
Generate ==
    /\ applied = "none"
    /\ input.fn = "generateFlashcards"
    /\ IF Len(TrimSpace(input.text)) = 0 \/ input.s.nil
       THEN /\ applied' = "generateFlashcards"
            /\ output' = generateFlashcards(input.s, input.text, input.source, NoOracle.gen, "")
       ELSE /\ applied' = "GenerateContent"
            /\ output' = [err |-> NoError, set |-> NoSet,
                          calls |-> <<Call("generate", Prompt(input.text), "pending", "")>>]
    /\ UNCHANGED <<input, goroutines, shared>>

\* s.model.GenerateContent returns with the answer of the model: the rest of
\* generateFlashcards, with the time read when the set is built
GenerateContentAnswered ==
    /\ applied = "GenerateContent"
    /\ \E g \in Gens, c \in Clocks :
           output' = generateFlashcards(input.s, input.text, input.source, g, c.now)
    /\ applied' = "generateFlashcards"
    /\ UNCHANGED <<input, goroutines, shared>>

FunctionNext ==
    \/ Parse \/ ParseBlock \/ RenderAndParse \/ ExtractURL \/ Title
    \/ Generate \/ GenerateContentAnswered

FunctionSpec == FunctionInit /\ [][FunctionNext]_vars

(***************************************************************************)
(* Concurrent requests: several goroutines, a few requests, and the        *)
(* answers of the collaborators of a request fixed when the request is     *)
(* accepted, so that what a request is answered can be compared with what  *)
(* it is answered when it is alone.                                        *)
(***************************************************************************)
MaxGoroutines == 2

URLMessage ==
    A2ARequest("POST", JSONBody(Str("2.0"), Str("req-1"), Str("message/send"),
        ParamsObj(MessageObj(Str("task-001"),
            [t |-> "array",
             items |-> <<TextPart(Str(URLText)),
                         DataPart(ObjectPayload(Str("application/pdf"), Str(InlinePDF), Absent))>>]))))

PDFMessage ==
    A2ARequest("POST", JSONBody(Str("2.0"), Str("req-2"), Str("message/send"),
        ParamsObj(MessageObj(Absent,
            [t |-> "array",
             items |-> <<TextPart(Str(PlainText)),
                         DataPart(ObjectPayload(Str("application/pdf"), Str(InlinePDF), Absent))>>]))))

TextMessage ==
    A2ARequest("POST", JSONBody(Str("2.0"), Str("req-3"), Str("message/send"),
        ParamsObj(MessageObj(Absent, [t |-> "array", items |-> <<TextPart(Str(PlainText))>>]))))

UploadPDF ==
    [endpoint |-> "upload", verb |-> "POST", body |-> MalformedBody,
     form |-> [t |-> "file", content |-> PDFBytes, readerr |-> FALSE]]

HealthCheck == [endpoint |-> "health", verb |-> "GET", body |-> MalformedBody, form |-> NoForm]

ConcurrentRequests ==
    {URLMessage, PDFMessage, TextMessage, UploadPDF, HealthCheck, A2ARequest("GET", MalformedBody)}

ConcurrentOracles ==
    { o \in Oracles :
        /\ o.fetch \in {[t |-> "neterr", status |-> 0, data |-> ""],
                         [t |-> "ok", status |-> 200, data |-> PDFBytes]}
        /\ o.extract = Document(<<PageText("Cells "), NullPage, PageText("divide.")>>)
        /\ o.gen \in {[t |-> "err", text |-> ""], [t |-> "ok", text |-> TwoCards]}
        /\ o.fetch.t = "ok" <=> o.gen.t = "ok"
        /\ o.now = "2025-11-07T10:30:00Z" }

ConcurrentInit ==
    /\ applied = "none"
    /\ input = NoInput
    /\ output = NoOutput
    /\ goroutines = [i \in 1..MaxGoroutines |-> IdleGoroutine]
    /\ shared \in SharedObjects

Accept ==
    \E i \in 1..MaxGoroutines, r \in ConcurrentRequests, o \in ConcurrentOracles :
        Step(i, {"idle"}, {Serve(NewGoroutine(r, o), shared)})

DecodeReturn ==
    \E i \in 1..MaxGoroutines :
        Step(i, {"decode"}, {DecodeReturns(goroutines[i], goroutines[i].o.extract, shared)})

ParseMultipartFormReturn ==
    \E i \in 1..MaxGoroutines :
        Step(i, {"parse"},
             {ParseMultipartFormReturns(goroutines[i], goroutines[i].o.extract, shared)})

GetReturn ==
    \E i \in 1..MaxGoroutines :
        Step(i, {"fetch"}, {GetReturns(goroutines[i], goroutines[i].o.fetch, shared)})

ReadAllReturn ==
    \E i \in 1..MaxGoroutines :
        Step(i, {"read"}, {ReadAllReturns(goroutines[i], goroutines[i].o.extract, shared)})

GenerateReturn ==
    \E i \in 1..MaxGoroutines :
        Step(i, {"generate"},
             {GenerateReturns(goroutines[i], goroutines[i].o.gen, goroutines[i].o, shared)})

Cancel ==
    \E i \in 1..MaxGoroutines :
        Step(i, {"fetch", "read", "generate"},
             IF goroutines[i].ctx = "active" THEN {Cancelled(goroutines[i], shared)} ELSE {})

\* the handler has returned: the goroutine ends
Exit ==
    \E i \in 1..MaxGoroutines :
        Step(i, {"done"}, {[g |-> IdleGoroutine, sh |-> shared]})

ConcurrentNext ==
    \/ Accept \/ DecodeReturn \/ ParseMultipartFormReturn \/ GetReturn \/ ReadAllReturn
    \/ GenerateReturn \/ Cancel \/ Exit

ConcurrentSpec == ConcurrentInit /\ [][ConcurrentNext]_vars

(***************************************************************************)
(* Properties.  The properties of one request are about the goroutine of   *)
(* Spec: where its handler is, the request, what the handler wrote         *)
(* (nothing when it panicked), the route it logged and the collaborator    *)
(* calls it has made so far.  A state with pc = "done" shows everything    *)
(* the handler did.                                                        *)
(***************************************************************************)
pc == goroutines[1].pc
request == goroutines[1].r
writes == goroutines[1].writes
route == goroutines[1].route
calls == goroutines[1].calls

\* the handler of the message endpoint has run to its end
OnA2A == pc = "done" /\ request.endpoint = "a2a"
\* the handler of the upload endpoint has run to its end
OnUpload == pc = "done" /\ request.endpoint = "upload"
Resp == writes[1]
RPCErr == writes[1].rpc.error
IsErrorResponse == Len(writes) = 1 /\ Resp.rpc.error # NoRPCError /\ Resp.rpc.result = NoResult
IsSuccessResponse == Len(writes) = 1 /\ Resp.rpc.error = NoRPCError /\ Resp.rpc.result # NoResult

\* the handler has run to its end and has written a response
Responded == pc = "done" /\ writes # << >>
\* the handler has panicked: it has ended without a response, which happens only when
\* the flashcard service is nil
PanickedOnNilService == pc = "done" /\ writes = << >> /\ shared.flashcardService.nil

\* the request as the client sent it
ReqBody == request.body
ReqMessage == request.body.params.message
ReqItems == request.body.params.message.parts.items

\* the request is a POST to the message endpoint whose body decodes
PostWithBody == request.endpoint = "a2a" /\ request.verb = "POST" /\ BodyDecodes(ReqBody)
\* ... with version 2.0 and method message/send
SendRequest == PostWithBody /\ ReqBody.jsonrpc = Str("2.0") /\ ReqBody.method = Str("message/send")
\* ... whose params hold a message object that decodes into the Message shape
MessageRequest ==
    /\ SendRequest
    /\ ReqBody.params.t = "object"
    /\ ReqMessage.t = "object"
    /\ MessageDecodes(ReqMessage)

\* the handler has run to its end on such a request
DecodedPost == OnA2A /\ PostWithBody
IsSend == OnA2A /\ SendRequest
HasMessage == OnA2A /\ MessageRequest

TextPartIndexes == {i \in 1..Len(ReqItems) : ReqItems[i].kind = Str(KindText)}
FirstTextIndex == CHOOSE i \in TextPartIndexes : \A j \in TextPartIndexes : i <= j
\* the text of the first part whose kind is text
FirstTextOfRequest == StringField(ReqItems[FirstTextIndex].text)

Ops == {calls[i].op : i \in 1..Len(calls)}

\* C1: a POST whose body decodes and whose jsonrpc field is not exactly "2.0" (or is
\* absent) is answered with the error InvalidRequest, whatever its method and params.
C1_WrongVersionIsInvalidRequest ==
    (DecodedPost /\ ReqBody.jsonrpc # Str("2.0"))
        => (IsErrorResponse /\ RPCErr.code = InvalidRequest /\ RPCErr.code # MethodNotFound)

\* C1 witness: wrong version together with an unknown method, answered InvalidRequest
C1_Witness ==
    /\ DecodedPost
    /\ ReqBody.jsonrpc = Str("1.0")
    /\ ReqBody.method = Str("tasks/get")
    /\ IsErrorResponse
    /\ RPCErr.code = InvalidRequest

\* C2: a request whose verb is not POST is answered with HTTP 200 and an error envelope
\* of code InvalidRequest and message "Only POST method is supported"; its body is not
\* decoded (the handler has ended without waiting for the body, and a body that cannot
\* be decoded changes nothing) and no collaborator is called.
C2_NonPostIsInvalidRequest ==
    (request.endpoint = "a2a" /\ request.verb # "POST")
        => /\ pc = "done"
           /\ IsErrorResponse
           /\ Resp.status = 200
           /\ RPCErr.code = InvalidRequest
           /\ RPCErr.message = "Only POST method is supported"
           /\ calls = << >>
           /\ route = "none"

\* C2 witness: a GET with a body that would not decode, answered InvalidRequest
C2_Witness ==
    /\ OnA2A
    /\ request.verb = "GET"
    /\ ~BodyDecodes(ReqBody)
    /\ IsErrorResponse
    /\ RPCErr.code = InvalidRequest
    /\ Resp.status = 200

\* C3 as stated: every response carries the id of its request, and the response to a
\* failure before decoding (non-POST verb, undecodable body) carries the empty id.
C3_Original ==
    (OnA2A /\ Responded)
        => /\ Len(writes) = 1
           /\ Resp.rpc.id = IF DecodedPost THEN StringField(ReqBody.id) ELSE ""

\* C3 amended: every response to a POST whose body decodes carries the id of the request;
\* the response to a POST whose body does not decode (ParseError) carries the empty id;
\* the response to a non-POST verb carries the id "unknown".
C3_IdEchoed ==
    /\ (OnA2A /\ Responded)
           => /\ Len(writes) = 1
              /\ Resp.rpc.id = IF DecodedPost THEN StringField(ReqBody.id)
                               ELSE IF request.verb = "POST" THEN ""
                               ELSE "unknown"
    /\ (OnA2A /\ ~DecodedPost)
           => /\ IsErrorResponse
              /\ request.verb = "POST" => RPCErr.code = ParseError

\* C3 witness: an error response after decoding that echoes a non-empty request id
C3_Witness ==
    /\ DecodedPost
    /\ ReqBody.id = Str("req-1")
    /\ IsErrorResponse
    /\ Resp.rpc.id = "req-1"

\* C4: every request to the message endpoint ends with exactly one write, of HTTP
\* status 200, whose envelope has exactly one of result and error populated.
C4_OneWriteStatus200ResultXorError ==
    OnA2A => /\ Len(writes) = 1
             /\ Resp.status = 200
             /\ (Resp.rpc.result # NoResult) # (Resp.rpc.error # NoRPCError)

\* C4, a request that failed downstream is answered once, with status 200
C4_AnsweredOnceReached ==
    /\ OnA2A
    /\ calls # << >>
    /\ IsErrorResponse
    /\ Resp.status = 200
    /\ RPCErr.code = InternalError

\* C4, what happens when main has a nil flashcard service: a message/send request with a
\* text to generate from is routed, the handler panics and nothing is written
C4_NoResponseReached ==
    /\ HasMessage
    /\ TextPartIndexes # {}
    /\ route = "text"
    /\ TrimSpace(FirstTextOfRequest) # ""
    /\ PanickedOnNilService
    /\ calls = << >>

\* C5: a POST with version 2.0 whose method is not "message/send" is answered with the
\* error MethodNotFound whose data names the method; nothing is extracted, routed or
\* generated.
C5_UnknownMethodNotFound ==
    (DecodedPost /\ ReqBody.jsonrpc = Str("2.0") /\ ReqBody.method # Str("message/send"))
        => /\ IsErrorResponse
           /\ RPCErr.code = MethodNotFound
           /\ RPCErr.data = "Method " \o StringField(ReqBody.method) \o " not supported"
           /\ route = "none"
           /\ calls = << >>

\* C5 witness: the method tasks/get on a request that carries a valid message
C5_Witness ==
    /\ DecodedPost
    /\ ReqBody.jsonrpc = Str("2.0")
    /\ ReqBody.method = Str("tasks/get")
    /\ ReqMessage.t = "object"
    /\ IsErrorResponse
    /\ RPCErr.code = MethodNotFound
    /\ Contains(RPCErr.data, "tasks/get")

\* a payload that identifies itself as a PDF: a structured payload with contentType
\* "application/pdf" carrying inline data, or raw bytes
IdentifiesAsPDF(d) ==
    \/ d.t = "object" /\ d.contentType = Str("application/pdf") /\ d.data.t = "string"
    \/ d.t = "object" /\ d.pdf.t = "bytes"
    \/ d.t = "bytes"

PDFPartIndexes ==
    {i \in 1..Len(ReqItems) : ReqItems[i].kind = Str(KindData) /\ IdentifiesAsPDF(ReqItems[i].data)}

\* a message/send request that reaches the routing decision, from the moment its body
\* has been decoded: while the handler waits in a collaborator and when it has ended
Routed == MessageRequest /\ pc # "decode" /\ TextPartIndexes # {} /\ FirstTextOfRequest # ""

\* C6: routing picks exactly one path: the URL path when the text has a PDF-URL token,
\* otherwise the uploaded-PDF path when a data part identifies itself as a PDF,
\* otherwise the text path; no collaborator of another path is called, neither while
\* the request is in progress nor when it has ended.
C6_RoutingPriority ==
    Routed =>
        IF ExtractPDFURL(FirstTextOfRequest) # ""
        THEN /\ route = "url"
             /\ calls = << >> <=> PanickedOnNilService
             /\ calls # << >> => calls[1].op = "fetch"
             /\ \A i \in 1..Len(calls) : \A j \in PDFPartIndexes :
                    calls[i].arg # ReqItems[j].data.data.s
        ELSE IF PDFPartIndexes # {}
        THEN /\ route = "pdf"
             /\ calls = << >> <=> PanickedOnNilService
             /\ calls # << >> => calls[1].op = "validate"
             /\ "fetch" \notin Ops
        ELSE /\ route = "text"
             /\ Ops \subseteq {"generate"}

\* C6, while the request is in progress: the download of the URL is awaited and nothing
\* has been done with the PDF data part of the message
C6_DownloadAwaitedReached ==
    /\ Routed
    /\ pc = "fetch"
    /\ PDFPartIndexes # {}
    /\ route = "url"
    /\ calls = <<Call("fetch", ExtractPDFURL(FirstTextOfRequest), "pending", "")>>

\* C6 witness: a PDF URL in the text and a PDF data part: the URL is fetched
C6_Witness ==
    /\ Routed
    /\ pc = "done"
    /\ ExtractPDFURL(FirstTextOfRequest) # ""
    /\ PDFPartIndexes # {}
    /\ route = "url"
    /\ Len(calls) > 1
    /\ calls[1].op = "fetch"

\* the FlashcardSet a response returns, NoSet when it returns none
ReturnedSet ==
    IF OnA2A /\ IsSuccessResponse THEN Resp.rpc.result.artifacts[1].parts[1].Data
    ELSE IF OnUpload /\ Len(writes) = 1 THEN Resp.set
    ELSE NoSet

ReturnsSet ==
    \/ OnA2A /\ IsSuccessResponse
    \/ OnUpload /\ Len(writes) = 1 /\ Resp.status = 200

\* the model answered with text from which the parser gets no flashcard
ZeroCardsParsed ==
    /\ calls # << >>
    /\ calls[Len(calls)].op = "generate"
    /\ calls[Len(calls)].res = "ok"
    /\ ParseResponse(calls[Len(calls)].out) = << >>

\* C7: no FlashcardSet without flashcards is returned on any path: when the parser gets
\* no flashcard the outcome is the InternalError "could not generate meaningful
\* flashcards from the content", and a returned set has totalCards = Len(flashcards) >= 1.
C7_NoEmptyFlashcardSet ==
    /\ ReturnsSet => /\ Len(ReturnedSet.Flashcards) >= 1
                     /\ ReturnedSet.TotalCards = Len(ReturnedSet.Flashcards)
    /\ (OnA2A /\ ZeroCardsParsed)
           => /\ IsErrorResponse
              /\ RPCErr.code = InternalError
              /\ RPCErr.message = "could not generate meaningful flashcards from the content"
    /\ (OnUpload /\ ZeroCardsParsed)
           => /\ Len(writes) = 1
              /\ Resp.status = 500
              /\ Resp.set = NoSet
              /\ Contains(Resp.text, "could not generate meaningful flashcards from the content")

\* C7 witness: the model answered with text that holds no flashcard
C7_Witness ==
    /\ OnA2A
    /\ ZeroCardsParsed
    /\ calls[Len(calls)].out # ""
    /\ IsErrorResponse
    /\ RPCErr.code = InternalError

\* C8: the user input is the text of the first text part in declaration order: it is
\* the text given to generation on the text route and the text the URL is taken from on
\* the URL route; a message without a text part is answered InvalidParams ("No text
\* content found in message") and no collaborator is called.
C8_FirstTextPartIsUserInput ==
    HasMessage =>
        IF TextPartIndexes = {}
        THEN /\ IsErrorResponse
             /\ RPCErr.code = InvalidParams
             /\ RPCErr.data = "No text content found in message"
             /\ route = "none"
             /\ calls = << >>
        ELSE /\ (route = "text" /\ calls # << >>) => calls[1].arg = Prompt(FirstTextOfRequest)
             /\ (route = "url" /\ calls # << >>) => calls[1].arg = ExtractPDFURL(FirstTextOfRequest)
             /\ route = "url" <=> ExtractPDFURL(FirstTextOfRequest) # ""
             /\ FirstTextOfRequest = "" => calls = << >>

\* C8 witness: a plain text part followed by a text part with a PDF URL: the plain
\* text is the input
C8_Witness ==
    /\ HasMessage
    /\ Len(ReqItems) = 2
    /\ ReqItems[1] = TextPart(Str(PlainText))
    /\ ReqItems[2] = TextPart(Str(URLText))
    /\ route = "text"
    /\ calls # << >>
    /\ calls[1].arg = Prompt(PlainText)

\* C9: a message/send request whose params have no message entry, or one that is not an
\* object, or one that does not decode into the Message shape, is answered InvalidParams
\* and nothing downstream runs; otherwise extraction returns the decoded message, which
\* a successful response shows as the first entry of its history.
C9_MessageExtraction ==
    IsSend =>
        IF ~HasMessage
        THEN /\ IsErrorResponse
             /\ RPCErr.code = InvalidParams
             /\ route = "none"
             /\ calls = << >>
        ELSE /\ Len(writes) <= 1
             /\ Responded => RPCErr.message \notin {"Missing or invalid 'message' parameter",
                                                    "Invalid message format"}
             /\ IsSuccessResponse =>
                    /\ Resp.rpc.result.history[1].Kind = StringField(ReqMessage.kind)
                    /\ Resp.rpc.result.history[1].Role = StringField(ReqMessage.role)
                    /\ Resp.rpc.result.history[1].MessageID = StringField(ReqMessage.messageId)
                    /\ Resp.rpc.result.history[1].TaskID = StringField(ReqMessage.taskId)
                    /\ Len(Resp.rpc.result.history[1].Parts) = Len(ReqItems)

\* C9 witness: a message object with a mistyped field and a usable text part
C9_Witness ==
    /\ IsSend
    /\ ReqBody.params.t = "object"
    /\ ReqMessage.t = "object"
    /\ ReqMessage.taskId = Num
    /\ Len(ReqItems) = 1
    /\ ReqItems[1] = TextPart(Str(PlainText))
    /\ IsErrorResponse
    /\ RPCErr.code = InvalidParams
    /\ RPCErr.message = "Invalid message format"

\* C10: in a successful response the history is the user message as received followed
\* by the agent message; the agent message is status.message, the state is completed
\* and the kind is "task".
C10_HistoryIsUserThenAgent ==
    (OnA2A /\ IsSuccessResponse) =>
        LET res == Resp.rpc.result
        IN  /\ Len(res.history) = 2
            /\ res.history[1] = DecodeMessage(ReqMessage)
            /\ res.history[1].Metadata = ReqMessage.metadata
            /\ res.history[2].Metadata = Absent
            /\ res.history[1].Role = RoleUser
            /\ res.history[2].Role = RoleAgent
            /\ res.history[2] = res.status.message
            /\ res.status.state = "completed"
            /\ res.kind = "task"

\* C10 witness: a successful response to a message of two parts
C10_Witness ==
    /\ OnA2A
    /\ IsSuccessResponse
    /\ Len(ReqItems) = 2
    /\ Len(Resp.rpc.result.history) = 2
    /\ Len(Resp.rpc.result.history[1].Parts) = 2
    /\ Resp.rpc.result.history[2].Role = RoleAgent

\* the metadata of the user message is in the first entry of the history
C10_MetadataEchoedReached ==
    /\ OnA2A
    /\ IsSuccessResponse
    /\ ReqMessage.metadata = ClientMetadata
    /\ Resp.rpc.result.history[1].Metadata = ClientMetadata

\* the values uuid.New() can return in a request
GeneratedUUIDs == UNION {{c.uuids[i] : i \in 1..Len(c.uuids)} : c \in Clocks}

\* C11: in a successful response the id of the TaskResult is the taskId of the incoming
\* message when that is non-empty and otherwise a generated, non-empty id; the contextId
\* is generated for the request (not the value used for another id of the response) and
\* is no value of the request.
C11_TaskIdEchoedContextIdFresh ==
    (OnA2A /\ IsSuccessResponse) =>
        LET res == Resp.rpc.result
            tid == StringField(ReqMessage.taskId)
        IN  /\ tid # "" => res.id = tid
            /\ tid = "" => /\ res.id # ""
                           /\ \E u \in GeneratedUUIDs : res.id = "task-" \o Prefix8(u)
            /\ \E u \in GeneratedUUIDs :
                   /\ res.contextId = "ctx-" \o u
                   /\ res.artifacts[1].artifactId # "artifact-" \o u
                   /\ res.status.message.MessageID # "msg-" \o Prefix8(u)
                   /\ res.id # "task-" \o Prefix8(u)
            /\ res.contextId \notin {tid, StringField(ReqMessage.contextId),
                                     StringField(ReqMessage.messageId), StringField(ReqBody.id)}

\* C11 witness: a successful response to a message that carries a taskId and a contextId
C11_Witness ==
    /\ OnA2A
    /\ IsSuccessResponse
    /\ ReqMessage.taskId = Str("task-001")
    /\ ReqMessage.contextId = Str(ClientContextID)
    /\ Resp.rpc.result.id = "task-001"
    /\ Resp.rpc.result.contextId # ClientContextID

\* C11 second case: no taskId in the message, a generated id in the response
C11_FreshIdReached ==
    /\ OnA2A
    /\ IsSuccessResponse
    /\ ReqMessage.taskId = Absent
    /\ HasPrefix(Resp.rpc.result.id, "task-")

\* the source texts handed to flashcard generation in this request: the user input on
\* the text route, the text extracted from the PDF on the other routes
SourceTexts ==
    (IF request.endpoint = "a2a" /\ route = "text" THEN {FirstTextOfRequest} ELSE {})
    \cup {calls[i].out : i \in {j \in 1..Len(calls) : calls[j].op = "extract" /\ calls[j].res = "ok"}}

\* C12: on every path, when the source text is empty after trimming white space,
\* generation fails with InvalidParams "no content to generate flashcards from" (HTTP
\* 500 without a FlashcardSet on the upload endpoint), the request has ended and the
\* generative model has not been invoked.
C12_EmptySourceTextNeverGenerated ==
    \A t \in SourceTexts :
        TrimSpace(t) = "" =>
            /\ pc = "done"
            /\ "generate" \notin Ops
            /\ OnA2A => /\ IsErrorResponse
                        /\ RPCErr.code = InvalidParams
                        /\ RPCErr.message = "no content to generate flashcards from"
            /\ OnUpload => /\ Len(writes) = 1
                           /\ Resp.status = 500
                           /\ Resp.set = NoSet

\* C12 witness: the PDF behind a URL has only white space as text
C12_Witness ==
    /\ OnA2A
    /\ route = "url"
    /\ Len(calls) = 3
    /\ calls[3].op = "extract" /\ calls[3].res = "ok"
    /\ calls[3].out # "" /\ TrimSpace(calls[3].out) = ""
    /\ IsErrorResponse
    /\ RPCErr.code = InvalidParams

\* C12 on the other paths: white space as the user input, and as the text of an
\* uploaded PDF
C12_TextRouteReached ==
    /\ OnA2A /\ route = "text" /\ FirstTextOfRequest # "" /\ TrimSpace(FirstTextOfRequest) = ""
    /\ calls = << >>

C12_UploadReached ==
    /\ OnUpload /\ SourceTexts # {} /\ \A t \in SourceTexts : TrimSpace(t) = ""
    /\ Resp.status = 500

\* a collaborator call that reported a failure, and the kind of error of its stage
FailedCall(c) ==
    \/ c.op = "fetch" /\ c.res = "failed"
    \/ c.op = "validate" /\ c.res = "invalid"
    \/ c.op = "extract" /\ c.res # "ok"
    \/ c.op = "generate" /\ c.res \in {"err", "empty"}

StageErrorCode(c) == IF c.op = "validate" THEN InvalidParams ELSE InternalError

\* C13: when a stage of the routed path fails, the request has ended, with the error of
\* that stage's kind and without a result, and nothing else is attempted: the failed call is
\* the last call, every call is one of the routed path, and no PDF data part or user
\* text is processed instead.
C13_DownstreamFailureEndsRequest ==
    \A i \in 1..Len(calls) :
        FailedCall(calls[i]) =>
            /\ pc = "done"
            /\ i = Len(calls)
            /\ OnA2A =>
                   /\ IsErrorResponse
                   /\ RPCErr.code = StageErrorCode(calls[i])
                   /\ Resp.rpc.result = NoResult
                   /\ route = "url" =>
                          /\ calls[1].op = "fetch"
                          /\ \A j \in 2..Len(calls) :
                                 /\ calls[j].op \in {"validate", "extract"} => calls[j].arg = calls[1].out
                                 /\ calls[j].arg # Prompt(FirstTextOfRequest)
                   /\ route = "pdf" =>
                          /\ "fetch" \notin Ops
                          /\ \A j \in 1..Len(calls) : calls[j].arg # Prompt(FirstTextOfRequest)
            /\ OnUpload => /\ Len(writes) = 1
                           /\ Resp.status = 500
                           /\ Resp.set = NoSet

\* C13 witness: the download fails for a message that also carries a PDF data part
C13_Witness ==
    /\ OnA2A
    /\ route = "url"
    /\ PDFPartIndexes # {}
    /\ Len(calls) = 1
    /\ calls[1].op = "fetch" /\ FailedCall(calls[1])
    /\ IsErrorResponse
    /\ RPCErr.code = InternalError

\* C13 on the uploaded-PDF route: the signature check fails, InvalidParams
C13_InvalidPDFReached ==
    /\ OnA2A
    /\ calls # << >>
    /\ calls[Len(calls)].op = "validate" /\ FailedCall(calls[Len(calls)])
    /\ IsErrorResponse
    /\ RPCErr.code = InvalidParams

\* the second page of a downloaded PDF fails: the error names page 2
C13_SecondPageFailsReached ==
    /\ OnA2A
    /\ route = "url"
    /\ Len(calls) = 3 /\ calls[3].op = "extract" /\ calls[3].res = "err"
    /\ IsErrorResponse
    /\ RPCErr.message = "Failed to extract text from page 2"

\* C14: rendering a FlashcardSet that the parser produced and parsing the rendered text
\* gives as many flashcards, with the same question and the same answer at each
\* position; the heading and the summary of the rendering give no flashcard.
C14_RenderParseRoundTrip ==
    applied = "FormatAsText" =>
        LET cards  == input.set.Flashcards
            blocks == Split(output.text, "\n\n")
        IN  /\ Len(output.cards) = Len(cards)
            /\ \A i \in 1..Len(cards) :
                   /\ output.cards[i].Question = cards[i].Question
                   /\ output.cards[i].Answer = cards[i].Answer
            /\ blocks[1] = "# " \o input.set.Title
            /\ HasPrefix(blocks[2], "Generated ")
            /\ ParseResponse(blocks[1] \o "\n\n" \o blocks[2]) = << >>

\* C14 witness: three flashcards from a source that contains "Q:" and "A:"; the topic
\* of the first one is not reproduced
C14_Witness ==
    /\ applied = "FormatAsText"
    /\ Len(input.set.Flashcards) = 3
    /\ Contains(input.set.Source, "Q:") /\ Contains(input.set.Source, "A:")
    /\ input.set.Flashcards[1].Question # input.set.Flashcards[2].Question
    /\ Len(output.cards) = 3
    /\ output.cards[3].Answer = input.set.Flashcards[3].Answer
    /\ input.set.Flashcards[1].Topic = "Biology"
    /\ output.cards[1].Topic = "Concept"

\* the flashcards that a sequence of blocks stands for, in block order
RECURSIVE CardsOf(_, _)
CardsOf(blocks, n) == IF n = 0 THEN << >> ELSE CardsOf(blocks, n - 1) \o blocks[n].cards

HasBothMarkers(text) == Contains(text, "Q:") /\ Contains(text, "A:")

\* C15: the parser gives the flashcards of the blank-line-separated blocks in block
\* order, each with the question, answer and topic of its own block; a block without
\* both "Q:" and "A:" gives no flashcard and leaves the flashcards of the other blocks
\* as they are.
C15_BlockOrderInvalidDropped ==
    applied = "ParseResponse" =>
        /\ output = CardsOf(input.blocks, Len(input.blocks))
        /\ \A i \in 1..Len(input.blocks) :
               ~HasBothMarkers(input.blocks[i].text) => input.blocks[i].cards = << >>

\* C15 witness: a block without "A:" between two blocks with different topics
C15_Witness ==
    /\ applied = "ParseResponse"
    /\ Len(input.blocks) = 3
    /\ input.blocks[1].cards # << >>
    /\ Contains(input.blocks[2].text, "Q:") /\ ~Contains(input.blocks[2].text, "A:")
    /\ input.blocks[3].cards # << >>
    /\ Len(output) = 2
    /\ output[1].Topic = "Biology"
    /\ output[2].Topic = "Cell cycle"

\* a word without its trailing '.', ',' and ';'
Stripped(w) == TrimRight(w, {".", ",", ";"})

\* ".pdf" in any mix of upper and lower case occurs in w
ContainsPDF(w) == \E i \in 1..(Len(w) - 3) : ToLower(SubSeq(w, i, i + 3)) = ".pdf"

Qualifies(w) == HasPrefix(Stripped(w), "http") /\ ContainsPDF(Stripped(w))

\* C16: ExtractPDFURL returns the stripped form of the first white-space-delimited word
\* whose stripped form starts with "http" and contains ".pdf" in any case, and the empty
\* string when there is no such word; nothing else about the word is examined.
C16_FirstQualifyingWord ==
    applied = "ExtractPDFURL" =>
        LET Q == {i \in 1..Len(input.words) : Qualifies(input.words[i])}
        IN  output = IF Q = {} THEN ""
                     ELSE Stripped(input.words[CHOOSE i \in Q : \A j \in Q : i <= j])

\* C16 witness: two qualifying words, the first with upper-case ".PDF" and a trailing comma
C16_Witness ==
    /\ applied = "ExtractPDFURL"
    /\ input.words = <<"https://e.com/f.PDF,", "http://x/a.pdf">>
    /\ output = "https://e.com/f.PDF"

\* C16, no word qualifies: the result is the empty string
C16_NoneReached ==
    /\ applied = "ExtractPDFURL"
    /\ input.words = <<"HTTP://x/b.pdf", "http://x/page">>
    /\ output = ""

\* the upload handler called GenerateFromPDFData, and it returned a FlashcardSet
\* the file of the upload was read: uploadHandler calls GenerateFromPDFData
FileRead ==
    /\ request.endpoint = "upload"
    /\ request.verb = "POST"
    /\ request.form.t = "file"
    /\ ~request.form.readerr
    /\ request.form.content # ""

\* the flashcard generation of the upload succeeded
UploadSucceeded ==
    /\ OnUpload
    /\ Len(calls) = 3
    /\ calls[3].op = "generate" /\ calls[3].res = "ok"
    /\ ParseResponse(calls[3].out) # << >>

IsPlainText(resp) ==
    /\ HasPrefix(resp.ctype, "text/plain")
    /\ resp.text # ""
    /\ resp.set = NoSet
    /\ resp.rpc = NoEnvelope

\* C17: the upload endpoint answers a POST with a malformed multipart form with 400, a
\* form without the file field "pdf" with 400, a failure of flashcard generation (the
\* file was read and GenerateFromPDFData gave no FlashcardSet) with 500 and a plain-text
\* body; it answers 200 exactly when generation succeeded, and then the body is the
\* FlashcardSet itself, without a JSON-RPC envelope.
C17_UploadStatusCodes ==
    OnUpload =>
        /\ Len(writes) <= 1
        /\ (request.verb = "POST" /\ request.form.t = "malformed")
               => (Responded /\ Resp.status = 400 /\ IsPlainText(Resp) /\ calls = << >>)
        /\ (request.verb = "POST" /\ request.form.t = "nofile")
               => (Responded /\ Resp.status = 400 /\ IsPlainText(Resp) /\ calls = << >>)
        /\ (FileRead /\ ~UploadSucceeded)
               => /\ Responded
                  /\ Resp.status = 500
                  /\ IsPlainText(Resp)
                  /\ HasPrefix(Resp.text, "Failed to generate flashcards: ")
        /\ UploadSucceeded => Responded
        /\ (Responded /\ Resp.status = 200) <=> UploadSucceeded
        /\ (Responded /\ Resp.status = 200)
               => /\ Resp.ctype = "application/json"
                  /\ Resp.rpc = NoEnvelope
                  /\ Resp.text = ""
                  /\ Resp.set # NoSet
                  /\ Resp.set.Flashcards = ParseResponse(calls[3].out)

\* C17, what happens when main has a nil flashcard service: the file of the upload is
\* read, GenerateFromPDFData panics and no status is written, neither 500 nor another
C17_NoStatusReached ==
    /\ OnUpload
    /\ FileRead
    /\ request.form.content = PDFBytes
    /\ PanickedOnNilService
    /\ calls = << >>

\* C17, with a flashcard service: a PDF is uploaded and two flashcards come back as the
\* body
C17_SetReturnedReached ==
    /\ OnUpload
    /\ FileRead
    /\ UploadSucceeded
    /\ Resp.status = 200
    /\ Resp.set.TotalCards = 2
    /\ Resp.rpc = NoEnvelope

\* C17, the failures that are answered: no file field, and a file that is not a PDF
C17_MissingFileReached ==
    OnUpload /\ request.verb = "POST" /\ request.form.t = "nofile" /\ Resp.status = 400

C17_GenerationFailureReached ==
    /\ OnUpload
    /\ FileRead
    /\ calls # << >>
    /\ calls[Len(calls)].op = "validate" /\ FailedCall(calls[Len(calls)])
    /\ Resp.status = 500

\* the first four characters of s are "http"
BeginsWithHTTP(s) == Len(s) >= 4 /\ SubSeq(s, 1, 4) = "http"

\* C18: generateTitle gives "Flashcards from PDF" for a source that begins with "http"
\* and "Study Flashcards" for every other source; the title of a FlashcardSet that
\* generateFlashcards returns is "Flashcards from PDF" exactly when its source begins
\* with "http".
C18_TitleFromSourcePrefix ==
    /\ applied = "generateTitle" =>
           output = IF BeginsWithHTTP(input.source) THEN "Flashcards from PDF"
                    ELSE "Study Flashcards"
    /\ (applied = "generateFlashcards" /\ output.err = NoError) =>
           /\ output.set.Source = input.source
           /\ output.set.Title \in {"Flashcards from PDF", "Study Flashcards"}
           /\ output.set.Title = "Flashcards from PDF" <=> BeginsWithHTTP(output.set.Source)

\* C18 witness: the source of an uploaded PDF gets the title "Study Flashcards"
C18_Witness ==
    /\ applied = "generateTitle"
    /\ input.source = "uploaded_pdf"
    /\ output = "Study Flashcards"

\* C18, a returned FlashcardSet whose source begins with "http"
C18_SetFromURLReached ==
    /\ applied = "generateFlashcards"
    /\ output.err = NoError
    /\ BeginsWithHTTP(output.set.Source)
    /\ output.set.Title = "Flashcards from PDF"

\* C19: a successful upload through the upload endpoint returns a FlashcardSet whose
\* source is "uploaded_pdf" and whose title is "Flashcards from PDF".
C19_UploadedPDFTitle ==
    (OnUpload /\ UploadSucceeded /\ Len(writes) = 1 /\ Resp.status = 200) =>
        /\ Resp.set.Source = "uploaded_pdf"
        /\ Resp.set.Title = "Flashcards from PDF"

\* C19, what the upload endpoint returns: the source "uploaded_pdf" with the title
\* "Study Flashcards"
C19_StudyTitleReached ==
    /\ OnUpload
    /\ UploadSucceeded
    /\ Resp.status = 200
    /\ Resp.set.Source = "uploaded_pdf"
    /\ Resp.set.Title = "Study Flashcards"

\* the collaborators of the path a request took, in the order of the path
PathOrder ==
    IF request.endpoint = "a2a" /\ route = "url"
    THEN <<"fetch", "validate", "extract", "generate">>
    ELSE IF (request.endpoint = "a2a" /\ route = "pdf") \/ request.endpoint = "upload"
    THEN <<"validate", "extract", "generate">>
    ELSE IF request.endpoint = "a2a" /\ route = "text" THEN <<"generate">>
    ELSE << >>

\* C20: at every moment of a request the collaborator invocations made so far are a
\* prefix of fetch, validate, extract, generate on the URL route, of validate, extract,
\* generate on the uploaded-PDF route and of generate on the text route: each
\* collaborator at most once, in that order, none after one that failed (the request
\* has then ended), and none while the result of an earlier one is awaited.
C20_CallsArePrefixOfPath ==
    /\ Len(calls) <= Len(PathOrder)
    /\ \A i \in 1..Len(calls) : calls[i].op = PathOrder[i]
    /\ \A i \in 1..Len(calls) : \A j \in 1..Len(calls) : calls[i].op = calls[j].op => i = j
    /\ \A i \in 1..Len(calls) : FailedCall(calls[i]) => (i = Len(calls) /\ pc = "done")
    /\ \A i \in 1..Len(calls) : calls[i].res = "pending" => (i = Len(calls) /\ pc # "done")

\* C20 witness: the whole path of the URL route, each collaborator once
C20_Witness ==
    /\ OnA2A
    /\ route = "url"
    /\ Len(calls) = 4
    /\ calls[1].op = "fetch" /\ calls[2].op = "validate"
    /\ calls[3].op = "extract" /\ calls[4].op = "generate"
    /\ IsSuccessResponse

\* C20, while the request is in progress: the answer of the model is awaited after the
\* download, the validation and the extraction
C20_GenerationAwaitedReached ==
    /\ pc = "generate"
    /\ route = "url"
    /\ Len(calls) = 4
    /\ calls[1].op = "fetch" /\ calls[1].res = "ok"
    /\ calls[3].op = "extract" /\ calls[3].res = "ok"
    /\ calls[4].op = "generate" /\ calls[4].res = "pending"
    /\ writes = << >>

\* C20, the body of the download is awaited after the server of the PDF answered
C20_BodyAwaitedReached ==
    /\ pc = "read"
    /\ route = "url"
    /\ Len(calls) = 1
    /\ calls[1].op = "fetch" /\ calls[1].res = "pending"

\* C20, a path cut short: the extraction fails on the uploaded-PDF route
C20_CutShortReached ==
    /\ OnA2A
    /\ route = "pdf"
    /\ Len(calls) = 2
    /\ FailedCall(calls[2])

\* C21: when the request is cancelled while an outbound download or generation call is
\* in flight, the call is aborted: no goroutine whose request context is cancelled is
\* still blocked in an outbound call.
C21_CancellationAbortsOutboundCalls ==
    \A i \in 1..MaxGoroutines :
        goroutines[i].ctx = "cancelled" => goroutines[i].call = NoCall

\* C21, what happens instead: the response is written after the client has gone
C21_AnsweredAfterCancelReached ==
    \E i \in 1..MaxGoroutines :
        /\ goroutines[i].ctx = "cancelled"
        /\ goroutines[i].pc = "done"
        /\ goroutines[i].writes # << >>


\* the lines of the block that start, once trimmed, with the prefix
LinesWith(lines, prefix) == {i \in 1..Len(lines) : HasPrefix(TrimSpace(lines[i]), prefix)}

\* the trimmed remainder of the last line of the block that starts with the prefix,
\* "" when the block has no such line
Retained(lines, prefix) ==
    LET with == LinesWith(lines, prefix)
    IN  IF with = {} THEN ""
        ELSE LET last == CHOOSE i \in with : \A j \in with : j <= i
             IN  TrimSpace(TrimPrefix(TrimSpace(lines[last]), prefix))

\* C22: within a block the value retained for Q:, A: and T: is the trimmed remainder of
\* the last line with that prefix, also when that remainder is empty: the block gives one
\* flashcard, made of the retained values, when the retained question and answer are
\* both non-empty, and no flashcard otherwise; never more than one.
C22_LastLineOfEachPrefixWins ==
    applied = "ParseCard" =>
        LET q == Retained(input.lines, "Q:")
            a == Retained(input.lines, "A:")
            t == Retained(input.lines, "T:")
        IN  /\ Len(output) <= 1
            /\ (q = "" \/ a = "") => output = << >>
            /\ (q # "" /\ a # "") =>
                   /\ Len(output) = 1
                   /\ output[1].Question = q
                   /\ output[1].Answer = a
                   /\ t # "" => output[1].Topic = t

\* a block with two Q: lines whose last one has an empty remainder gives no flashcard
C22_Witness ==
    /\ applied = "ParseCard"
    /\ input.lines = <<"Q: First?", "A: One", "\tQ: \t">>
    /\ output = << >>

\* a block with two Q: lines and two A: lines gives the one flashcard of the last ones
C22_LastWinsReached ==
    /\ applied = "ParseCard"
    /\ input.lines = <<"Q: First?", "A: One", VerticalTab \o "Q:  Second? \r" \o VerticalTab>>
    /\ output = <<Card("Second?", "One", "Concept")>>

\* question and answer non-empty and without surrounding white space, topic non-empty
WellFormed(card) ==
    /\ card.Question # "" /\ ~IsSpace(CharAt(card.Question, 1))
    /\ ~IsSpace(CharAt(card.Question, Len(card.Question)))
    /\ card.Answer # "" /\ ~IsSpace(CharAt(card.Answer, 1))
    /\ ~IsSpace(CharAt(card.Answer, Len(card.Answer)))
    /\ card.Topic # ""

AllWellFormed(cards) == \A i \in 1..Len(cards) : WellFormed(cards[i])

\* C23: every flashcard of a returned FlashcardSet, and every flashcard the parser makes
\* of a response or of a block, has a non-empty question and answer without leading or
\* trailing white space and a non-empty topic; a block gives a flashcard only if its
\* question and answer are non-empty after trimming, and the topic of the flashcard is
\* "Concept" when the block has no T: line or its T: line has an empty remainder.
C23_FlashcardsWellFormed ==
    /\ (applied = "generateFlashcards" /\ output.err = NoError) =>
           AllWellFormed(output.set.Flashcards)
    /\ applied = "ParseResponse" => AllWellFormed(output)
    /\ applied = "ParseCard" =>
           /\ AllWellFormed(output)
           /\ output # << >> =>
                  /\ Retained(input.lines, "Q:") # ""
                  /\ Retained(input.lines, "A:") # ""
                  /\ Retained(input.lines, "T:") = "" => output[1].Topic = "Concept"

\* a block whose T: line is empty gives a flashcard with the topic "Concept"
C23_Witness ==
    /\ applied = "ParseCard"
    /\ input.lines = <<VerticalTab \o "Q:  Second? \r" \o VerticalTab, "A:Two ", "T:">>
    /\ output = <<Card("Second?", "Two", "Concept")>>

\* C23, while generateFlashcards waits for the model there is no set yet
C23_ModelAwaitedReached ==
    /\ applied = "GenerateContent"
    /\ output.set = NoSet
    /\ output.calls[1].res = "pending"

\* a set is returned for a response with a block that has no T: line
C23_SetReached ==
    /\ applied = "generateFlashcards"
    /\ output.err = NoError
    /\ \E i \in 1..Len(output.set.Flashcards) : output.set.Flashcards[i].Topic = "Concept"


\* the response the request r gets when it is handled alone with the answers o
AloneResponse(r, o) ==
    IF r.endpoint = "upload" THEN uploadHandler(shared.flashcardService, r, o).writes
    ELSE IF r.endpoint = "health" THEN healthCheckHandler(r).writes
    ELSE ServeHTTP(shared.flashcardService, r, o).writes

\* C24: in every interleaving of the steps of concurrently handled requests, a request
\* that has been answered got the response it gets when it is handled alone with the
\* same collaborator answers, and the objects shared by the requests (PDF service,
\* flashcard service with its model handle, handler) are as they were made at start-up.
C24_RequestsAreIndependent ==
    /\ shared \in SharedObjects
    /\ \A i \in 1..MaxGoroutines :
           goroutines[i].pc = "done" =>
               goroutines[i].writes = AloneResponse(goroutines[i].r, goroutines[i].o)

\* a request is answered with its flashcards between the start and the end of the
\* generation call of another request
C24_Witness ==
    \E i, j \in 1..MaxGoroutines :
        /\ i # j
        /\ goroutines[i].pc = "done"
        /\ goroutines[i].r = URLMessage
        /\ goroutines[i].writes # << >>
        /\ goroutines[i].writes[1].rpc.result # NoResult
        /\ goroutines[j].pc = "generate"
        /\ goroutines[j].r = TextMessage
        /\ goroutines[j].o # goroutines[i].o

\* the health check is answered while another request waits for its download
C24_HealthAnsweredDuringDownloadReached ==
    \E i, j \in 1..MaxGoroutines :
        /\ goroutines[i].pc = "done"
        /\ goroutines[i].r = HealthCheck
        /\ goroutines[i].writes = healthCheckHandler(HealthCheck).writes
        /\ goroutines[j].pc = "fetch"
        /\ goroutines[j].r = URLMessage

\* with a nil flashcard service one request ends without a response and another, which
\* needs no service, is answered
C24_NilServiceReached ==
    \E i, j \in 1..MaxGoroutines :
        /\ shared.flashcardService.nil
        /\ goroutines[i].pc = "done" /\ goroutines[i].r = TextMessage
        /\ goroutines[i].writes = << >>
        /\ goroutines[j].pc = "done" /\ goroutines[j].r = A2ARequest("GET", MalformedBody)
        /\ goroutines[j].writes # << >>

\* two requests are answered, one with flashcards and one with an error
C24_BothAnsweredReached ==
    \E i, j \in 1..MaxGoroutines :
        /\ goroutines[i].pc = "done" /\ goroutines[j].pc = "done"
        /\ goroutines[i].r = PDFMessage /\ goroutines[j].r = UploadPDF
        /\ goroutines[i].writes # << >> /\ goroutines[j].writes # << >>
        /\ goroutines[i].writes[1].rpc.result # NoResult
        /\ goroutines[j].writes[1].status = StatusInternalServerError


\* every part of the message is a data part
AllDataParts == \A i \in 1..Len(ReqItems) : ReqItems[i].kind = Str(KindData)

\* C25: the uploaded-PDF route of the message endpoint is taken only for a message with
\* a text part whose first text is non-empty and holds no PDF-URL token; a message whose
\* parts are all data parts, or whose first text part has an empty text, is answered
\* InvalidParams without a routing decision and without a call to validation,
\* extraction or generation.
C25_PDFRouteNeedsText ==
    /\ route = "pdf" =>
           /\ MessageRequest
           /\ TextPartIndexes # {}
           /\ FirstTextOfRequest # ""
           /\ ExtractPDFURL(FirstTextOfRequest) = ""
    /\ (HasMessage /\ (AllDataParts \/ (TextPartIndexes # {} /\ FirstTextOfRequest = ""))) =>
           /\ IsErrorResponse
           /\ RPCErr.code = InvalidParams
           /\ route = "none"
           /\ calls = << >>

\* a message whose only part is a data part with a PDF payload is rejected
C25_Witness ==
    /\ HasMessage
    /\ Len(ReqItems) = 1
    /\ AllDataParts
    /\ PDFPartIndexes = {1}
    /\ IsErrorResponse
    /\ RPCErr.code = InvalidParams
    /\ calls = << >>

\* an empty text part before a PDF data part: rejected as well
C25_EmptyTextReached ==
    /\ HasMessage
    /\ Len(ReqItems) = 2
    /\ TextPartIndexes = {1} /\ FirstTextOfRequest = ""
    /\ PDFPartIndexes = {2}
    /\ IsErrorResponse
    /\ route = "none"

\* the uploaded-PDF route is taken for a plain text part with a PDF data part
C25_PDFRouteReached ==
    /\ route = "pdf"
    /\ FirstTextOfRequest = PlainText
    /\ calls # << >> /\ calls[1].op = "validate"

====
